---- MODULE Spec2Model ----
(***************************************************************************)
(* Snapshot ingestion pipeline of azure-pricing-history:                   *)
(* PriceSnapshot/__init__.py (timer trigger, run tracking, upsert, page    *)
(* loop) and ManualTrigger/__init__.py (HTTP trigger).                     *)
(* Time is counted in units of 1/UnitsPerHour hour.  The store (Azure SQL) *)
(* and the pricing API are the environment: every connection, statement    *)
(* and fetch may fail.                                                     *)
(***************************************************************************)
EXTENDS Integers, Sequences, FiniteSets, TLC

\* ---------------------------------------------------------------- bounds
UnitsPerHour == 2       \* clock units per hour (resolution of the clock)
MonthChange == 2        \* clock value at which the calendar month changes
MaxPages == 2           \* longest page chain the API serves
MaxItems == 3           \* most items in one page
NumMeters == 2          \* meters of the items of a call made on its own
MaxBatchSize == 200     \* largest BATCH_SIZE validate is applied to
MaxRetries == 11        \* largest MAX_RETRIES fetch_page is run with
MaxInvocations == 2     \* invocations run one after the other over the same pages
MaxRetriesMain == 1     \* largest MAX_RETRIES a whole invocation is run with
MaxChars == 3           \* most pieces in the text of CURRENCIES

\* ------------------------------------------------------ program constants
PARAMS_PER_ITEM == 22
MAX_EXECUTION_TIME_HOURS == 2
MAX_BACKOFF_SECONDS == 60
SQL_PARAM_LIMIT == 2100
MIN_BATCH_SIZE == 1
MAX_BATCH_SIZE == 95
DEFAULT_BATCH_SIZE == 90
RUN_STATUS_RUNNING == "RUNNING"
RUN_STATUS_SUCCEEDED == "SUCCEEDED"
RUN_STATUS_FAILED == "FAILED"

\* the clock shows the last units of hour MAX_EXECUTION_TIME_HOURS + 1 as
\* MaxTime; from there on an hour that has passed is taken off every time
\* stamp (see Tick)
MaxTime == (MAX_EXECUTION_TIME_HOURS + 2) * UnitsPerHour - 1

NULL == -1              \* SQL NULL / Python None in an integer column
NoneLink == 0           \* NextPageLink null or absent
EmptyLink == -1         \* NextPageLink ""

Currencies == {"USD", "EUR"}
SnapshotIds == {1, 2}
EffectiveDates == {"2024-01-01"}

\* the columns of "AS source (...)" in the MERGE statement, in their order
SourceColumns ==
    <<"meterId", "effectiveStartDate", "currencyCode", "retailPrice", "unitPrice",
      "unitOfMeasure", "armRegionName", "location", "productId", "productName",
      "skuId", "skuName", "serviceId", "serviceName", "serviceFamily", "meterName",
      "armSkuName", "reservationTerm", "type", "isPrimaryMeterRegion",
      "tierMinimumUnits", "availabilityId">>
ColumnSet == {SourceColumns[i] : i \in 1..Len(SourceColumns)}

\* an item as the API serves it: every field but the key and the flag carries
\* the content p; every item carries its own currencyCode
ItemCurrency == "EUR"
Item(m, d, p) ==
    [c \in ColumnSet |->
        IF c = "meterId" THEN m
        ELSE IF c = "effectiveStartDate" THEN d
        ELSE IF c = "currencyCode" THEN ItemCurrency
        ELSE IF c = "isPrimaryMeterRegion" THEN p % 2 = 1
        ELSE p]
Contents == {1, 2}

\* the items the API serves to an invocation are copies of one item: the
\* price table the invocations leave has at most one row for each currency
Items == {Item(1, d, 1) : d \in EffectiveDates}
Pages == UNION {[1..n -> Items] : n \in 0..MaxItems}

\* environment settings a trigger can find (BATCH_SIZE, CURRENCIES, SQL_*)
BatchSizes == {0, 2, 95, 100}
CurrencyLists == {<<>>, <<"USD">>, <<"USD", "EUR">>}
Environments == [batch_size : BatchSizes, currencies : CurrencyLists, sql_set : BOOLEAN]

Min(a, b) == IF a < b THEN a ELSE b

\* ------------------------------------------------------------ run table
NoRow == [status |-> "ABSENT", startedUtc |-> NULL, finishedUtc |-> NULL, itemCount |-> NULL]
RunKeys == SnapshotIds \X Currencies

\* datetime.now(timezone.utc).strftime("%Y%m") at clock value t
SnapshotIdAt(t) == IF t < MonthChange THEN 1 ELSE 2

\* DATEDIFF(HOUR, b, a), the dates in the wrong order
DateDiffHourSwapped(a, b) == (a \div UnitsPerHour) - (b \div UnitsPerHour)

\* DATEDIFF(HOUR, a, b): number of hour boundaries crossed between a and b
DateDiffHour(a, b) == (b \div UnitsPerHour) - (a \div UnitsPerHour)

\* cleanup_hung_snapshots: the UPDATE statement
CleanupHungUpdate(rs, t) ==
    [k \in DOMAIN rs |->
        IF rs[k].status = RUN_STATUS_RUNNING
           /\ DateDiffHour(rs[k].startedUtc, t) > MAX_EXECUTION_TIME_HOURS
        THEN [rs[k] EXCEPT !.status = RUN_STATUS_FAILED, !.finishedUtc = t]
        ELSE rs[k]]

\* create_snapshot_run whose UPDATE leaves finishedUtc and itemCount alone
CreateSnapshotRunKeeping(rs, sid, cur, t) ==
    [rs EXCEPT ![<<sid, cur>>] =
        IF @.status = "ABSENT"
        THEN [status |-> RUN_STATUS_RUNNING, startedUtc |-> t,
              finishedUtc |-> NULL, itemCount |-> NULL]
        ELSE [@ EXCEPT !.status = RUN_STATUS_RUNNING, !.startedUtc = t]]

\* DatabaseService.create_snapshot_run
CreateSnapshotRun(rs, sid, cur, t) ==
    [rs EXCEPT ![<<sid, cur>>] =
        [status |-> RUN_STATUS_RUNNING, startedUtc |-> t,
         finishedUtc |-> NULL, itemCount |-> NULL]]

\* update_snapshot_status without "AND currencyCode = ?"
UpdateSnapshotStatusAllCurrencies(rs, sid, cur, st, n, t) ==
    [k \in DOMAIN rs |->
        IF k[1] = sid /\ rs[k].status # "ABSENT"
        THEN [rs[k] EXCEPT !.finishedUtc = t, !.status = st, !.itemCount = n]
        ELSE rs[k]]

\* DatabaseService.update_snapshot_status
UpdateSnapshotStatus(rs, sid, cur, st, n, t) ==
    [k \in DOMAIN rs |->
        IF k = <<sid, cur>> /\ rs[k].status # "ABSENT"
        THEN [rs[k] EXCEPT !.finishedUtc = t, !.status = st, !.itemCount = n]
        ELSE rs[k]]

\* mark_snapshot_failed without "finishedUtc = SYSUTCDATETIME()"
MarkSnapshotFailedStatusOnly(rs, sid, cur, t) ==
    [k \in DOMAIN rs |->
        IF k[1] = sid /\ (cur = "" \/ k[2] = cur) /\ rs[k].status = RUN_STATUS_RUNNING
        THEN [rs[k] EXCEPT !.status = RUN_STATUS_FAILED]
        ELSE rs[k]]

\* mark_snapshot_failed without "snapshotId = ?"
MarkSnapshotFailedAnySnapshot(rs, sid, cur, t) ==
    [k \in DOMAIN rs |->
        IF (cur = "" \/ k[2] = cur) /\ rs[k].status = RUN_STATUS_RUNNING
        THEN [rs[k] EXCEPT !.finishedUtc = t, !.status = RUN_STATUS_FAILED]
        ELSE rs[k]]

\* mark_snapshot_failed without "AND status = ?"
MarkSnapshotFailedAnyStatus(rs, sid, cur, t) ==
    [k \in DOMAIN rs |->
        IF k[1] = sid /\ (cur = "" \/ k[2] = cur) /\ rs[k].status # "ABSENT"
        THEN [rs[k] EXCEPT !.finishedUtc = t, !.status = RUN_STATUS_FAILED]
        ELSE rs[k]]

\* mark_snapshot_failed always taking the "if currency:" branch
MarkSnapshotFailedOneCurrency(rs, sid, cur, t) ==
    [k \in DOMAIN rs |->
        IF k[1] = sid /\ k[2] = cur /\ rs[k].status = RUN_STATUS_RUNNING
        THEN [rs[k] EXCEPT !.finishedUtc = t, !.status = RUN_STATUS_FAILED]
        ELSE rs[k]]

\* DatabaseService.mark_snapshot_failed; cur = "" stands for currency=None
MarkSnapshotFailed(rs, sid, cur, t) ==
    [k \in DOMAIN rs |->
        IF k[1] = sid /\ (cur = "" \/ k[2] = cur)
           /\ rs[k].status = RUN_STATUS_RUNNING
        THEN [rs[k] EXCEPT !.finishedUtc = t, !.status = RUN_STATUS_FAILED]
        ELSE rs[k]]

\* ------------------------------------------------------------- validate
\* validate with "> 100" in place of "> 95"
ValidateWiderRange(cfg) ==
    IF cfg.batch_size < MIN_BATCH_SIZE \/ cfg.batch_size > 100
    THEN "BATCH_SIZE must be between 1 and 95"
    ELSE IF Len(cfg.currencies) = 0
    THEN "At least one currency must be configured"
    ELSE "ok"

\* PricingConfig.validate: "ok" or the ValueError raised
Validate(cfg) ==
    IF cfg.batch_size < MIN_BATCH_SIZE \/ cfg.batch_size > MAX_BATCH_SIZE
    THEN "BATCH_SIZE must be between 1 and 95"
    ELSE IF cfg.batch_size * PARAMS_PER_ITEM >= SQL_PARAM_LIMIT
    THEN "BATCH_SIZE would exceed SQL Server 2100 parameter limit"
    ELSE IF Len(cfg.currencies) = 0
    THEN "At least one currency must be configured"
    ELSE "ok"

\* --------------------------------------------------- dbo.AzureRetailPrices
\* the "?" of one row of the VALUES clause of _build_merge_statement
PLACEHOLDERS_PER_ROW == 22

\* DatabaseService._build_merge_statement(batch_size): the number of "?"
BuildMergeStatement(batch_size) == PLACEHOLDERS_PER_ROW * batch_size

\* the fields DatabaseService._extract_item_params reads, in its order; the
\* third entry is the currency argument
ParamFields ==
    <<"meterId", "effectiveStartDate", "currency", "retailPrice", "unitPrice",
      "unitOfMeasure", "armRegionName", "location", "productId", "productName",
      "skuId", "skuName", "serviceId", "serviceName", "serviceFamily", "meterName",
      "armSkuName", "reservationTerm", "type", "isPrimaryMeterRegion",
      "tierMinimumUnits", "availabilityId">>

\* the third parameter taken from the item: item.get("currencyCode")
ExtractItemParamsItemCurrency(item, currency) ==
    [i \in 1..Len(ParamFields) |->
        IF ParamFields[i] = "currency" THEN item["currencyCode"]
        ELSE IF ParamFields[i] = "isPrimaryMeterRegion"
             THEN (IF item[ParamFields[i]] THEN 1 ELSE 0)
        ELSE item[ParamFields[i]]]

\* DatabaseService._extract_item_params
ExtractItemParams(item, currency) ==
    [i \in 1..Len(ParamFields) |->
        IF ParamFields[i] = "currency" THEN currency
        ELSE IF ParamFields[i] = "isPrimaryMeterRegion"
             THEN (IF item[ParamFields[i]] THEN 1 ELSE 0)
        ELSE item[ParamFields[i]]]

\* params of one statement: "for item in unique_batch: params.extend(...)"
StatementParams(unique_batch, currency) ==
    [i \in 1..(Len(unique_batch) * Len(ParamFields)) |->
        ExtractItemParams(unique_batch[((i - 1) \div Len(ParamFields)) + 1],
                          currency)[((i - 1) % Len(ParamFields)) + 1]]

\* the MERGE statement: ON, WHEN MATCHED ... UPDATE SET, WHEN NOT MATCHED ... INSERT
KeyColumns == {"meterId", "effectiveStartDate", "currencyCode"}
UpdateSetColumns ==
    {"retailPrice", "unitPrice", "unitOfMeasure", "armRegionName", "location",
     "productId", "productName", "skuId", "skuName", "serviceId", "serviceName",
     "serviceFamily", "meterName", "armSkuName", "reservationTerm", "type",
     "isPrimaryMeterRegion", "tierMinimumUnits", "availabilityId"}
StoredColumns == ColumnSet \cup {"lastSeenUtc"}

\* row r of the VALUES clause: the r-th group of bound parameters, named by
\* the column list of "source"
SourceRow(params, r) ==
    [c \in ColumnSet |->
        params[(r - 1) * PLACEHOLDERS_PER_ROW
               + (CHOOSE i \in 1..Len(SourceColumns) : SourceColumns[i] = c)]]
SourceRows(params) ==
    {SourceRow(params, r) : r \in 1..(Len(params) \div PLACEHOLDERS_PER_ROW)}

SameKey(a, b) == \A k \in KeyColumns : a[k] = b[k]

\* a MERGE that leaves a matched row as it is
MatchedKept(target, source, t) == target

\* WHEN MATCHED THEN UPDATE SET ..., lastSeenUtc = SYSUTCDATETIME()
MatchedUpdate(target, source, t) ==
    [c \in StoredColumns |->
        IF c = "lastSeenUtc" THEN t
        ELSE IF c \in UpdateSetColumns THEN source[c]
        ELSE target[c]]

\* WHEN NOT MATCHED THEN INSERT (..., lastSeenUtc) VALUES (..., SYSUTCDATETIME())
NotMatchedInsert(source, t) ==
    [c \in StoredColumns |-> IF c = "lastSeenUtc" THEN t ELSE source[c]]

\* a plain INSERT of every source row in place of the MERGE
MergeInsertOnly(table, params, t) ==
    table \cup {NotMatchedInsert(s, t) : s \in SourceRows(params)}

\* the table after the MERGE of the bound parameters has executed at time t
Merge(table, params, t) ==
    LET sources == SourceRows(params)
    IN {r \in table : \A s \in sources : ~SameKey(r, s)}
       \cup {MatchedUpdate(r, s, t) : <<r, s>> \in {x \in table \X sources : SameKey(x[1], x[2])}}
       \cup {NotMatchedInsert(s, t) : s \in {x \in sources : \A r \in table : ~SameKey(r, x)}}

\* --------------------------------------------------------------- upsert
\* a key that tells two prices of one meter apart
DedupKeyWithPrice(item, currency) ==
    <<item.meterId, item.effectiveStartDate, currency, item.retailPrice>>

\* DatabaseService._deduplicate_batch: the key of an item
DedupKey(item, currency) == <<item.meterId, item.effectiveStartDate, currency>>

\* the iterations lo..hi of "for item in batch", entered with the keys of
\* seen: the items they append to unique_batch and the duplicates they count.
\* The iterations lo..hi are the iterations lo..mid followed by the
\* iterations mid+1..hi.
RECURSIVE DedupRange(_, _, _, _, _)
DedupRange(batch, currency, lo, hi, seen) ==
    IF lo > hi THEN [unique |-> <<>>, duplicates |-> 0]
    ELSE IF lo = hi
    THEN IF DedupKey(batch[lo], currency) \in seen
         THEN [unique |-> <<>>, duplicates |-> 1]
         ELSE [unique |-> <<batch[lo]>>, duplicates |-> 0]
    ELSE LET mid == (lo + hi) \div 2
             left == DedupRange(batch, currency, lo, mid, seen)
             right == DedupRange(batch, currency, mid + 1, hi,
                                 seen \cup {DedupKey(left.unique[i], currency) :
                                               i \in DOMAIN left.unique})
         IN [unique |-> left.unique \o right.unique,
             duplicates |-> left.duplicates + right.duplicates]

\* DatabaseService._deduplicate_batch: <<unique_batch, duplicates>>
DeduplicateBatch(batch, currency) ==
    LET d == DedupRange(batch, currency, 1, Len(batch), {})
    IN <<d.unique, d.duplicates>>

\* number of iterations of "for i in range(0, len(items), batch_size)"
NumChunks(items, batch_size) == (Len(items) + batch_size - 1) \div batch_size

\* the slice without its upper end: items[i:]
ChunkUnbounded(items, batch_size, j) ==
    SubSeq(items, (j - 1) * batch_size + 1, Len(items))

\* batch = items[i:i + batch_size] of the j-th iteration
Chunk(items, batch_size, j) ==
    SubSeq(items, (j - 1) * batch_size + 1, Min(j * batch_size, Len(items)))

\* a count of the items of the chunks 1..j, duplicates included
RECURSIVE CommittedUpToRaw(_, _, _, _)
CommittedUpToRaw(items, currency, batch_size, j) ==
    IF j = 0 THEN 0
    ELSE CommittedUpToRaw(items, currency, batch_size, j - 1)
         + Len(Chunk(items, batch_size, j))

\* the items of the chunks 1..j deduplicated as one batch
CommittedUpToPageWide(items, currency, batch_size, j) ==
    Len(DeduplicateBatch(SubSeq(items, 1, Min(j * batch_size, Len(items))), currency)[1])

\* rows committed by the chunks 1..j
RECURSIVE CommittedUpTo(_, _, _, _)
CommittedUpTo(items, currency, batch_size, j) ==
    IF j = 0 THEN 0
    ELSE CommittedUpTo(items, currency, batch_size, j - 1)
         + Len(DeduplicateBatch(Chunk(items, batch_size, j), currency)[1])

\* the j-th statement upsert_prices_batch executes: the rows of its VALUES
\* clause, its "?" and the parameters bound to it
Statement(currency, items, batch_size, j) ==
    LET unique_batch == DeduplicateBatch(Chunk(items, batch_size, j), currency)[1]
    IN [rows |-> Len(unique_batch),
        placeholders |-> BuildMergeStatement(Len(unique_batch)),
        params |-> Len(StatementParams(unique_batch, currency))]

\* one transaction for the whole page: a failure leaves nothing committed
CommittedAllOrNothing(items, batch_size, failAt) ==
    IF Len(items) = 0 \/ failAt # 0 THEN 0 ELSE NumChunks(items, batch_size)

\* the rows of the statements 1..k of upsert_prices_batch
RECURSIVE RowsCommitted(_, _, _, _)
RowsCommitted(currency, items, batch_size, k) ==
    IF k = 0 THEN 0
    ELSE RowsCommitted(currency, items, batch_size, k - 1)
         + Statement(currency, items, batch_size, k).rows

\* the chunks of upsert_prices_batch that commit
Committed(items, batch_size, failAt) ==
    IF Len(items) = 0 THEN 0
    ELSE IF failAt = 0 THEN NumChunks(items, batch_size)
    ELSE failAt - 1

\* DatabaseService.upsert_prices_batch; failAt = 0: every chunk commits,
\* failAt = j: executing or committing chunk j raises
UpsertPricesBatch(currency, items, batch_size, failAt) ==
    IF Len(items) = 0
    THEN [count |-> 0, raised |-> FALSE, stmts |-> 0]
    ELSE IF failAt = 0
    THEN [count |-> CommittedUpTo(items, currency, batch_size, NumChunks(items, batch_size)),
          raised |-> FALSE, stmts |-> NumChunks(items, batch_size)]
    ELSE [count |-> CommittedUpTo(items, currency, batch_size, failAt - 1),
          raised |-> TRUE, stmts |-> failAt]

\* the table after the chunks 1..j of upsert_prices_batch have committed
RECURSIVE TableUpTo(_, _, _, _, _, _)
TableUpTo(table, currency, items, batch_size, j, t) ==
    IF j = 0 THEN table
    ELSE Merge(TableUpTo(table, currency, items, batch_size, j - 1, t),
               StatementParams(DeduplicateBatch(Chunk(items, batch_size, j), currency)[1],
                               currency),
               t)

\* "while next_page_link is not None:" an empty link does not end the loop
LoopContinuesUnlessNone(link) == link # NoneLink

\* "while next_page_link:" a null, absent or empty link ends the loop
LoopContinues(link) == link > 0

\* "total_items = items_processed" in place of "+="
AddProcessedOverwrite(total, items_processed) == items_processed

\* process_currency: "total_items += items_processed"
AddProcessed(total, items_processed) == total + items_processed

\* ------------------------------------------------------------ exceptions
NoExc == [kind |-> "none", cur |-> ""]
Exc(kind, cur) == [kind |-> kind, cur |-> cur]

\* a line of the results list of process_all_currencies
ItemsLine(cur, n) == [currency |-> cur, kind |-> "items", n |-> n, reason |-> "none"]
FailedLine(cur, e) == [currency |-> cur, kind |-> "FAILED", n |-> NULL, reason |-> e.kind]

\* ================================================================ state
VARIABLES
    now,            \* the UTC clock
    runs,           \* table dbo.PriceSnapshotRuns
    pc,             \* position of the running invocation
    trigger,        \* "timer" or "manual"
    env,            \* the environment settings of the invocation
    config_loaded,  \* main: config is not None
    snapshot_id,    \* main: snapshot_id, NULL while None
    idx,            \* process_all_currencies: position in config.currencies
    next_page_link, \* process_currency: next_page_link
    page_index,     \* process_currency: page_index
    total_items,    \* process_currency: total_items
    results,        \* process_all_currencies: results
    exc,            \* the exception being handled
    raised,         \* the exception that left main
    outcome,        \* how the invocation ended
    calls,          \* calls of the invocation so far: reaper, startRun, finishRun
    io,             \* kinds of I/O the invocation has performed so far
    last,           \* the last store step of the invocation and how it went
    touched,        \* currencies with a startRun, fetch or upsert so far
    chain,          \* number of pages the API serves for the current currency
    prices,         \* table dbo.AzureRetailPrices
    upsertSum,      \* sum of the counts upsert_prices_batch returned for the currency
    committedRows,  \* rows of the statements committed for the currency
    origExc,        \* the first exception of the currency being processed
    reaped,         \* runs of died the reaper statement just executed has changed
    died,           \* RUNNING runs whose process died
    call,           \* the operation called on its own, with its arguments
    ret             \* what that call returned or raised

world == <<now, runs, died>>
locals == <<trigger, env, config_loaded, snapshot_id, idx, next_page_link,
            page_index, total_items, results, exc, raised, outcome>>
ghost == <<calls, io, last, touched, chain, upsertSum, committedRows, origExc, reaped>>
vars == <<now, runs, pc, trigger, env, config_loaded, snapshot_id, idx,
          next_page_link, page_index, total_items, results, exc, raised, outcome,
          calls, io, last, touched, chain, upsertSum, committedRows, origExc,
          reaped, died, prices, call, ret>>

\* the state of the invocations, and the state of a call made on its own
invocation == <<now, runs, pc, trigger, env, config_loaded, snapshot_id, idx,
                next_page_link, page_index, total_items, results, exc, raised,
                outcome, calls, io, last, touched, chain, upsertSum, committedRows, origExc,
                reaped, died>>
unit == <<call, ret>>

NoCalls == [reap |-> 0, startRun |-> 0, finish |-> 0]
NoCall == [op |-> "none"]
NoEnv == [batch_size |-> 0, currencies |-> <<>>, sql_set |-> FALSE]

\* the state before the first invocation, the clock showing t, the run table
\* being rs and the price table holding the rows of table
InitWith(t, rs, table) ==
    /\ now = t
    /\ runs = rs
    /\ pc = "idle"
    /\ trigger = "none"
    /\ env = NoEnv
    /\ config_loaded = FALSE
    /\ snapshot_id = NULL
    /\ idx = 0
    /\ next_page_link = NoneLink
    /\ page_index = 0
    /\ total_items = 0
    /\ results = <<>>
    /\ exc = NoExc
    /\ raised = NoExc
    /\ outcome = "none"
    /\ calls = NoCalls
    /\ io = {}
    /\ last = "none"
    /\ touched = {}
    /\ chain = 0
    /\ upsertSum = 0
    /\ committedRows = 0
    /\ origExc = NoExc
    /\ reaped = {}
    /\ died = {}
    /\ prices = table
    /\ call = NoCall
    /\ ret = NoCall

NoRuns == [k \in RunKeys |-> NoRow]
InitAt(t) == InitWith(t, NoRuns, {})

Init == InitAt(0)

\* a new invocation starts with fresh locals
FreshInvocation(kind, e) ==
    /\ trigger' = kind
    /\ env' = e
    /\ config_loaded' = FALSE
    /\ snapshot_id' = NULL
    /\ idx' = 0
    /\ next_page_link' = NoneLink
    /\ page_index' = 0
    /\ total_items' = 0
    /\ results' = <<>>
    /\ exc' = NoExc
    /\ calls' = NoCalls
    /\ io' = {}
    /\ last' = "none"
    /\ touched' = {}
    /\ chain' = 0
    /\ upsertSum' = 0
    /\ committedRows' = 0
    /\ origExc' = NoExc
    /\ reaped' = {}

\* the partial count in place of 0
FailedRunItemCountPartial == total_items

\* process_all_currencies: the item count written with RUN_STATUS_FAILED
FailedRunItemCount == 0

\* ============================================================== actions
\* the runs of died that are RUNNING in the run table rs
StillRunning(rs) == {k \in died : rs[k].status = RUN_STATUS_RUNNING}

Idle == pc \in {"idle", "done"}
CurrentCurrency == env.currencies[idx]
Count(field) == [calls EXCEPT ![field] = @ + 1]

\* the timer fires: PriceSnapshot.main is entered
TimerTrigger(Envs) ==
    /\ Idle
    /\ \E e \in Envs : FreshInvocation("timer", e)
    /\ pc' = "diag"
    /\ outcome' = "none"
    /\ raised' = NoExc
    /\ UNCHANGED world
    /\ UNCHANGED <<prices, unit>>

\* an HTTP request arrives: the ManualTrigger module is loaded; its import
\* of PriceSnapshot.sql_connection, a name PriceSnapshot does not define,
\* raises ImportError before ManualTrigger.main can run
ManualTrigger(Envs) ==
    /\ Idle
    /\ \E e \in Envs : FreshInvocation("manual", e)
    /\ pc' = "done"
    /\ outcome' = "import_error"
    /\ raised' = Exc("ImportError", "")
    /\ UNCHANGED world
    /\ UNCHANGED <<prices, unit>>

\* PriceSnapshot.main: the diagnostics write, every error swallowed
Diagnostics ==
    /\ pc = "diag"
    /\ \E r \in {"keyerror", "connfail", "stmtfail", "ok"} :
        /\ (r = "keyerror") <=> ~env.sql_set
        /\ last' = "diagnostics:" \o r
        /\ io' = IF r \in {"stmtfail", "ok"}
                 THEN io \cup {"connection", "statement"}
                 ELSE io
    /\ pc' = "load"
    /\ UNCHANGED <<world, locals, calls, touched, chain, upsertSum, committedRows, origExc, reaped>>
    /\ UNCHANGED <<prices, unit>>

\* PriceSnapshot.main: from_environment, validate, snapshot_id
LoadConfig ==
    /\ pc = "load"
    /\ IF ~env.sql_set
       THEN /\ exc' = Exc("KeyError", "")
            /\ pc' = "except"
            /\ UNCHANGED <<config_loaded, snapshot_id>>
       ELSE IF Validate(env) # "ok"
       THEN /\ config_loaded' = TRUE
            /\ exc' = Exc(Validate(env), "")
            /\ pc' = "except"
            /\ UNCHANGED snapshot_id
       ELSE /\ config_loaded' = TRUE
            /\ snapshot_id' = SnapshotIdAt(now)
            /\ pc' = "reap"
            /\ UNCHANGED exc
    /\ UNCHANGED <<world, trigger, env, idx, next_page_link, page_index,
                   total_items, results, raised, outcome, ghost>>
    /\ UNCHANGED <<prices, unit>>

\* PriceSnapshot.main: "with get_sql_connection(...) as conn:
\* cleanup_hung_snapshots(conn)"
ReapWith(r) ==
    /\ pc = "reap"
    /\ last' = "reap:" \o r
    /\ IF r = "connfail"
       THEN /\ exc' = Exc("connection", "")
            /\ pc' = "except"
            /\ UNCHANGED <<runs, calls, io, reaped>>
       ELSE /\ calls' = Count("reap")
            /\ io' = io \cup {"connection", "statement"}
            /\ runs' = IF r = "ok" THEN CleanupHungUpdate(runs, now) ELSE runs
            /\ reaped' = {k \in died : runs'[k] # runs[k]}
            /\ pc' = "open"
            /\ UNCHANGED exc
    /\ died' = StillRunning(runs')
    /\ UNCHANGED <<now, trigger, env, config_loaded, snapshot_id, idx,
                   next_page_link, page_index, total_items, results, raised,
                   outcome, touched, chain, upsertSum, committedRows, origExc>>
    /\ UNCHANGED <<prices, unit>>

Reap == \E r \in {"connfail", "stmtfail", "ok"} : ReapWith(r)

\* process_all_currencies: "with get_sql_connection(...) as conn:"
OpenConnection ==
    /\ pc = "open"
    /\ \E ok \in BOOLEAN :
        IF ok
        THEN /\ io' = io \cup {"connection"}
             /\ last' = "open:ok"
             /\ idx' = 1
             /\ pc' = "start"
             /\ UNCHANGED exc
        ELSE /\ exc' = Exc("connection", "")
             /\ last' = "open:connfail"
             /\ pc' = "except"
             /\ UNCHANGED <<io, idx>>
    /\ reaped' = {}
    /\ UNCHANGED <<world, trigger, env, config_loaded, snapshot_id,
                   next_page_link, page_index, total_items, results, raised,
                   outcome, calls, touched, chain, upsertSum, committedRows, origExc>>
    /\ UNCHANGED <<prices, unit>>

\* process_currency, up to the page loop: create_snapshot_run, build_api_url
StartRun ==
    /\ pc = "start"
    /\ touched' = touched \cup {CurrentCurrency}
    /\ calls' = Count("startRun")
    /\ io' = io \cup {"statement"}
    /\ \E ok \in BOOLEAN :
        IF ok
        THEN /\ runs' = CreateSnapshotRun(runs, snapshot_id, CurrentCurrency, now)
             /\ died' = died \ {<<snapshot_id, CurrentCurrency>>}
             /\ last' = "startRun:ok"
             /\ total_items' = 0
             /\ page_index' = 0
             /\ next_page_link' = 1
             /\ \E k \in 1..MaxPages : chain' = k
             /\ upsertSum' = 0
             /\ committedRows' = 0
             /\ origExc' = NoExc
             /\ pc' = "fetch"
             /\ UNCHANGED exc
        ELSE /\ exc' = Exc("startRun", CurrentCurrency)
             /\ origExc' = Exc("startRun", CurrentCurrency)
             /\ last' = "startRun:fail"
             /\ pc' = "mark"
             /\ UNCHANGED <<runs, died, total_items, page_index, next_page_link,
                            chain, upsertSum, committedRows>>
    /\ UNCHANGED <<now, trigger, env, config_loaded, snapshot_id, idx,
                   results, raised, outcome, reaped>>
    /\ UNCHANGED <<prices, unit>>

\* process_currency: one iteration of "while next_page_link:": fetch_page,
\* upsert_prices_batch when the page has items, then the NextPageLink.
\* The API serves page p of a chain of `chain` pages; the last page carries
\* a null (or absent) or empty NextPageLink.
PageStep(PageSet) ==
    /\ pc = "fetch"
    /\ LoopContinues(next_page_link)
    /\ page_index' = page_index + 1
    /\ \E fetched \in BOOLEAN :
        IF ~fetched
        THEN /\ io' = io \cup {"http"}
             /\ exc' = Exc("fetch", CurrentCurrency)
             /\ origExc' = Exc("fetch", CurrentCurrency)
             /\ pc' = "mark"
             /\ UNCHANGED <<total_items, next_page_link, upsertSum, committedRows,
                            last, prices>>
        ELSE \E items \in PageSet :
             \E failAt \in 0..(IF Len(items) = 0 THEN 0
                               ELSE NumChunks(items, env.batch_size)) :
             \E link \in (IF next_page_link < chain
                          THEN {next_page_link + 1}
                          ELSE {NoneLink, EmptyLink}) :
             LET u == UpsertPricesBatch(CurrentCurrency, items, env.batch_size, failAt)
             IN /\ io' = io \cup {"http"}
                          \cup (IF u.stmts > 0 THEN {"statement"} ELSE {})
                /\ prices' = TableUpTo(prices, CurrentCurrency, items, env.batch_size,
                                       Committed(items, env.batch_size, failAt), now)
                /\ committedRows' = committedRows
                        + RowsCommitted(CurrentCurrency, items, env.batch_size,
                                        Committed(items, env.batch_size, failAt))
                /\ last' = IF Len(items) = 0 THEN last
                           ELSE IF u.raised THEN "upsert:fail" ELSE "upsert:ok"
                /\ IF u.raised
                   THEN /\ exc' = Exc("upsert", CurrentCurrency)
                        /\ origExc' = Exc("upsert", CurrentCurrency)
                        /\ pc' = "mark"
                        /\ UNCHANGED <<total_items, next_page_link, upsertSum>>
                   ELSE /\ total_items' = AddProcessed(total_items, u.count)
                        /\ upsertSum' = upsertSum + u.count
                        /\ next_page_link' = link
                        /\ pc' = IF LoopContinues(link) THEN "fetch" ELSE "finish"
                        /\ UNCHANGED <<exc, origExc>>
    /\ UNCHANGED <<world, trigger, env, config_loaded, snapshot_id, idx,
                   results, raised, outcome, calls, touched, chain, reaped>>
    /\ UNCHANGED unit

\* process_currency after the loop: update_snapshot_status(SUCCEEDED), return;
\* process_all_currencies: results.append, next currency or return
FinishRunWith(ok) ==
    /\ pc = "finish"
    /\ calls' = Count("finish")
    /\ IF ok
       THEN /\ runs' = UpdateSnapshotStatus(runs, snapshot_id, CurrentCurrency,
                                            RUN_STATUS_SUCCEEDED, total_items, now)
            /\ last' = "finishRun:ok"
            /\ results' = Append(results, ItemsLine(CurrentCurrency, total_items))
            /\ IF idx < Len(env.currencies)
               THEN /\ idx' = idx + 1
                    /\ pc' = "start"
                    /\ UNCHANGED outcome
               ELSE /\ pc' = "done"
                    /\ outcome' = "ok"
                    /\ UNCHANGED idx
            /\ UNCHANGED <<exc, origExc>>
       ELSE /\ exc' = Exc("finishRun", CurrentCurrency)
            /\ origExc' = Exc("finishRun", CurrentCurrency)
            /\ last' = "finishRun:fail"
            /\ pc' = "mark"
            /\ UNCHANGED <<runs, results, idx, outcome>>
    /\ died' = StillRunning(runs')
    /\ UNCHANGED <<now, trigger, env, config_loaded, snapshot_id,
                   next_page_link, page_index, total_items, raised, io,
                   touched, chain, upsertSum, committedRows, reaped>>
    /\ UNCHANGED <<prices, unit>>

FinishRun == \E ok \in BOOLEAN : FinishRunWith(ok)

\* process_all_currencies, the except block: update_snapshot_status(FAILED, 0),
\* results.append, raise.  When the update raises, its exception leaves the
\* block instead of the one being handled.
MarkRunFailedWith(ok) ==
    /\ pc = "mark"
    /\ IF ok
       THEN /\ runs' = UpdateSnapshotStatus(runs, snapshot_id, CurrentCurrency,
                                            RUN_STATUS_FAILED, FailedRunItemCount, now)
            /\ results' = Append(results, FailedLine(CurrentCurrency, exc))
            /\ last' = "mark:ok"
            /\ UNCHANGED exc
       ELSE /\ exc' = Exc("markError", CurrentCurrency)
            /\ last' = "mark:fail"
            /\ UNCHANGED <<runs, results>>
    /\ pc' = "except"
    /\ died' = StillRunning(runs')
    /\ UNCHANGED <<now, trigger, env, config_loaded, snapshot_id, idx,
                   next_page_link, page_index, total_items, raised, outcome,
                   calls, io, touched, chain, upsertSum, committedRows, origExc, reaped>>
    /\ UNCHANGED <<prices, unit>>

MarkRunFailed == \E ok \in BOOLEAN : MarkRunFailedWith(ok)

\* PriceSnapshot.main, the except block: mark_snapshot_failed(snapshot_id)
\* over a new connection when config and snapshot_id are set, errors of it
\* swallowed; then raise
HandleFailureWith(r) ==
    /\ pc = "except"
    /\ IF config_loaded /\ snapshot_id # NULL
       THEN /\ r # "skipped"
            /\ last' = "cleanup:" \o r
            /\ io' = IF r = "connfail" THEN io
                     ELSE io \cup {"connection", "statement"}
            /\ runs' = IF r = "ok"
                       THEN MarkSnapshotFailed(runs, snapshot_id, "", now)
                       ELSE runs
       ELSE /\ r = "skipped"
            /\ UNCHANGED <<last, io, runs>>
    /\ raised' = exc
    /\ outcome' = "raised"
    /\ pc' = "done"
    /\ died' = StillRunning(runs')
    /\ UNCHANGED <<now, trigger, env, config_loaded, snapshot_id, idx,
                   next_page_link, page_index, total_items, results, exc,
                   calls, touched, chain, upsertSum, committedRows, origExc, reaped>>
    /\ UNCHANGED <<prices, unit>>

HandleFailure == \E r \in {"skipped", "connfail", "stmtfail", "ok"} : HandleFailureWith(r)

\* the host kills the process in the middle of a currency
Crash ==
    /\ pc \in {"fetch", "finish"}
    /\ pc' = "done"
    /\ outcome' = "died"
    /\ died' = died \cup {<<snapshot_id, CurrentCurrency>>}
    /\ UNCHANGED <<now, runs, trigger, env, config_loaded, snapshot_id, idx,
                   next_page_link, page_index, total_items, results, exc,
                   raised, ghost>>
    /\ UNCHANGED <<prices, unit>>

\* a time stamp one hour earlier; a time stamp of hour 0 stays where it is,
\* it is more than MAX_EXECUTION_TIME_HOURS hours old either way
HourEarlier(t) == IF t >= UnitsPerHour THEN t - UnitsPerHour ELSE t

\* the clock advances by d units, d <= UnitsPerHour.  When that would lead
\* past MaxTime, the clock and every time stamp are rewritten one hour
\* earlier first, which keeps the hours between two time stamps and the month.
Tick(d) ==
    /\ IF now + d <= MaxTime
       THEN /\ now' = now + d
            /\ UNCHANGED runs
       ELSE /\ now' = HourEarlier(now) + d
            /\ runs' = [k \in RunKeys |->
                           [runs[k] EXCEPT !.startedUtc = HourEarlier(@),
                                           !.finishedUtc = HourEarlier(@)]]
    /\ UNCHANGED <<died, pc, locals, ghost>>
    /\ UNCHANGED <<prices, unit>>

\* one invocation after the other within one unit of the clock, over every
\* environment and every page
Next ==
    \/ TimerTrigger(Environments)
    \/ ManualTrigger(Environments)
    \/ Diagnostics
    \/ LoadConfig
    \/ Reap
    \/ OpenConnection
    \/ StartRun
    \/ PageStep(Pages)
    \/ FinishRun
    \/ MarkRunFailed
    \/ HandleFailure
    \/ Crash

Spec == Init /\ [][Next]_vars

\* the same invocations while the clock runs, for the valid configurations
\* of one currency and over empty pages
ClockEnvironments ==
    {e \in Environments : Validate(e) = "ok" /\ e.sql_set /\ Len(e.currencies) = 1
                           /\ e.batch_size = 2}
ClockPages == {p \in Pages : Len(p) = 0}

ClockNext ==
    \/ TimerTrigger(ClockEnvironments)
    \/ ManualTrigger(ClockEnvironments)
    \/ Diagnostics
    \/ LoadConfig
    \/ Reap
    \/ OpenConnection
    \/ StartRun
    \/ PageStep(ClockPages)
    \/ FinishRun
    \/ MarkRunFailed
    \/ HandleFailure
    \/ Crash
    \/ Tick(1)

ClockSpec == Init /\ [][ClockNext]_vars

\* the same with a clock read at the full hours only: DateDiffHour, the one
\* place where the program compares time stamps, sees nothing but the hour
LiveNext ==
    \/ TimerTrigger(ClockEnvironments)
    \/ ManualTrigger(ClockEnvironments)
    \/ Diagnostics
    \/ LoadConfig
    \/ Reap
    \/ OpenConnection
    \/ StartRun
    \/ PageStep(ClockPages)
    \/ FinishRun
    \/ MarkRunFailed
    \/ HandleFailure
    \/ Crash
    \/ Tick(UnitsPerHour)

\* a step of the running invocation
InvocationStep ==
    \/ Diagnostics
    \/ LoadConfig
    \/ Reap
    \/ OpenConnection
    \/ StartRun
    \/ PageStep(ClockPages)
    \/ FinishRun
    \/ MarkRunFailed
    \/ HandleFailure

\* the clock advances, the timer keeps firing, a running invocation keeps
\* going, the store does not refuse a statement for ever, and the host does
\* not go on killing processes for ever
LiveSpec ==
    /\ Init /\ [][LiveNext]_vars
    /\ <>[][~Crash]_vars
    /\ WF_vars(Tick(UnitsPerHour))
    /\ WF_vars(TimerTrigger(ClockEnvironments))
    /\ WF_vars(InvocationStep)
    /\ SF_vars(ReapWith("ok"))
    /\ SF_vars(FinishRunWith(TRUE))
    /\ SF_vars(MarkRunFailedWith(TRUE))
    /\ SF_vars(HandleFailureWith("ok"))

\* ------------------------------------------- PricingConfig.validate alone
\* the configurations validate is applied to
Configs == [batch_size : (0 - 1)..MaxBatchSize, currencies : CurrencyLists,
            sql_set : {TRUE}]

\* config.validate() on a configuration built by hand, as the unit tests do
CallValidate ==
    /\ \E cfg \in Configs :
        /\ call' = [op |-> "validate", cfg |-> cfg]
        /\ ret' = [op |-> "validate", raised |-> Validate(cfg)]
    /\ UNCHANGED <<invocation, prices>>

ConfigSpec == Init /\ [][CallValidate]_vars

\* ------------------------------------ DatabaseService.upsert_prices_batch alone
\* the items, pages, batch sizes and tables upsert_prices_batch is applied to
StoreItems == {Item(m, d, p) : m \in 1..NumMeters, d \in EffectiveDates, p \in Contents}
DistinctPage(n) == [i \in 1..n |-> Item(i, "2024-01-01", 1)]
StorePages == UNION {[1..n -> StoreItems] : n \in 0..MaxItems}
StoreBatchSizes ==
    {b \in BatchSizes :
        Validate([batch_size |-> b, currencies |-> <<"USD">>, sql_set |-> TRUE]) = "ok"}

\* a page of two items of one meter and date whose own currencyCode fields
\* differ
MixedPage ==
    <<[Item(1, "2024-01-01", 1) EXCEPT !["currencyCode"] = "USD"],
      [Item(1, "2024-01-01", 2) EXCEPT !["currencyCode"] = "EUR"]>>

\* the calls: every page with every batch size, a page of distinct items
\* that is one item longer than the largest batch, and the mixed page
StoreCalls ==
    (StorePages \X StoreBatchSizes)
    \cup {<<DistinctPage(MAX_BATCH_SIZE + 1), MAX_BATCH_SIZE>>}
    \cup ({MixedPage} \X StoreBatchSizes)

\* the table before the call: empty, or holding the row an earlier upsert of
\* one item has stored at time 0
StoredTables ==
    {{}} \cup {Merge({}, ExtractItemParams(Item(1, d, p), cur), 0) :
                  d \in EffectiveDates, p \in Contents, cur \in Currencies}
StoreInit == \E table \in StoredTables : InitWith(1, NoRuns, table)

\* db_service.upsert_prices_batch(snapshot_id, currency, items, batch_size)
\* on a table, as the unit tests call it
CallUpsert ==
    /\ call.op = "none"
    /\ \E currency \in Currencies, c \in StoreCalls :
       \E failAt \in 0..(IF Len(c[1]) = 0 THEN 0 ELSE NumChunks(c[1], c[2])) :
        LET items == c[1]
            batch_size == c[2]
            u == UpsertPricesBatch(currency, items, batch_size, failAt)
            k == Committed(items, batch_size, failAt)
        IN /\ call' = [op |-> "upsert", currency |-> currency, items |-> items,
                       batch_size |-> batch_size, failAt |-> failAt, table |-> prices]
           /\ ret' = [op |-> "upsert", count |-> u.count, raised |-> u.raised,
                      statements |-> [j \in 1..u.stmts |->
                                         Statement(currency, items, batch_size, j)],
                      commits |-> k,
                      rollbacks |-> IF u.raised THEN 1 ELSE 0]
           /\ prices' = TableUpTo(prices, currency, items, batch_size, k, now)
    /\ UNCHANGED invocation

StoreSpec == StoreInit /\ [][CallUpsert]_vars

\* ------------------------------------ DatabaseService._deduplicate_batch alone
\* DatabaseService._deduplicate_batch(items, currency), as the unit tests call it
CallDeduplicate ==
    /\ call.op = "none"
    /\ \E batch \in StorePages, currency \in Currencies :
        /\ call' = [op |-> "dedupe", batch |-> batch, currency |-> currency]
        /\ ret' = [op |-> "dedupe",
                   unique |-> DeduplicateBatch(batch, currency)[1],
                   duplicates |-> DeduplicateBatch(batch, currency)[2]]
    /\ UNCHANGED <<invocation, prices>>

DedupeSpec == Init /\ [][CallDeduplicate]_vars

\* ------------------------------------------ the run table operations alone
\* the rows a pair can have before the call: none, a run left RUNNING, a
\* SUCCEEDED run, a run marked FAILED, a run updated to FAILED with 0 items
StoredRuns ==
    {NoRow,
     [status |-> RUN_STATUS_RUNNING, startedUtc |-> 0, finishedUtc |-> NULL, itemCount |-> NULL],
     [status |-> RUN_STATUS_SUCCEEDED, startedUtc |-> 0, finishedUtc |-> 0, itemCount |-> 1],
     [status |-> RUN_STATUS_FAILED, startedUtc |-> 0, finishedUtc |-> 0, itemCount |-> NULL],
     [status |-> RUN_STATUS_FAILED, startedUtc |-> 0, finishedUtc |-> 0, itemCount |-> 0]}
RunTableInit == \E rs \in [RunKeys -> StoredRuns] : InitWith(1, rs, {})

\* db_service.create_snapshot_run(snapshot_id, currency, started_utc)
CallCreateSnapshotRun ==
    /\ call.op = "none"
    /\ \E sid \in SnapshotIds, cur \in Currencies, t \in 0..now :
        /\ runs' = CreateSnapshotRun(runs, sid, cur, t)
        /\ call' = [op |-> "startRun", sid |-> sid, cur |-> cur, t |-> t, runs |-> runs]
        /\ ret' = [op |-> "startRun", commits |-> 1]
    /\ UNCHANGED <<now, died, pc, locals, ghost, prices>>

\* db_service.mark_snapshot_failed(snapshot_id) and
\* db_service.mark_snapshot_failed(snapshot_id, currency)
CallMarkSnapshotFailed ==
    /\ call.op = "none"
    /\ \E sid \in SnapshotIds, cur \in Currencies \cup {""} :
        /\ runs' = MarkSnapshotFailed(runs, sid, cur, now)
        /\ call' = [op |-> "markFailed", sid |-> sid, cur |-> cur, t |-> now, runs |-> runs]
        /\ ret' = [op |-> "markFailed", commits |-> 1]
    /\ UNCHANGED <<now, died, pc, locals, ghost, prices>>

RunTableNext ==
    \/ CallCreateSnapshotRun
    \/ CallMarkSnapshotFailed

RunTableSpec == RunTableInit /\ [][RunTableNext]_vars

\* ------------------------------------------------- APIClient.fetch_page alone
\* wait_time = 2 ** attempt, without the cap
WaitUncapped(attempt) == 2 ^ attempt

\* wait_time of "if response.status_code == 429:"
WaitRateLimited(attempt) == Min(2 ^ attempt, MAX_BACKOFF_SECONDS)

\* wait_time of "except requests.exceptions.RequestException"
WaitTransient(attempt) == Min(2 ^ attempt, MAX_BACKOFF_SECONDS)

\* what the server or the network answers to one HTTP request: a status, or
\* no answer at all
RawResponses == {"200", "404", "429", "503", "ConnectionError"}

\* status_forcelist of the Retry strategy of _create_session
StatusForcelist == {"429", "500", "502", "503", "504"}

\* the failures the Retry strategy retries: connection and read errors, and
\* the statuses of status_forcelist (the method is GET, which is allowed)
Retriable(raw) == raw = "ConnectionError" \/ raw \in StatusForcelist

\* the session of the client: "mounted" is the session _create_session
\* builds, "replaced" is a session whose get has been replaced by the caller
\* (as the unit tests do) and answers with what one request gets
Sessions == {"mounted", "replaced"}

\* what self.session.get(url, timeout) followed by raise_for_status() and
\* json() does for fetch_page: a parsed page, a response with status 429, or
\* a requests.exceptions.RequestException. `raw` is the answer to the last
\* request of the call and `requests` the number of requests the call made.
\* The adapter of the mounted session repeats a request that failed in a
\* retriable way up to `total` times before it gives up with RetryError or
\* ConnectionError, and hands every other answer to fetch_page at once.
SessionGet(session, total) ==
    LET handed(raw, n) ==
            [response |-> IF raw = "200" THEN "page"
                          ELSE IF raw = "429" THEN "429"
                          ELSE "RequestException",
             error |-> IF raw = "ConnectionError" THEN "ConnectionError"
                       ELSE IF raw \in {"200", "429"} THEN "none"
                       ELSE "HTTPError",
             raw |-> raw, requests |-> n]
        gaveUp(raw) ==
            [response |-> "RequestException",
             error |-> IF raw = "ConnectionError" THEN "ConnectionError" ELSE "RetryError",
             raw |-> raw, requests |-> total + 1]
    IN IF session = "replaced"
       THEN {handed(raw, 1) : raw \in RawResponses}
       ELSE {handed(raw, retries + 1) :
                raw \in {r \in RawResponses : ~Retriable(r)}, retries \in 0..total}
            \cup {gaveUp(raw) : raw \in {r \in RawResponses : Retriable(r)}}

Responses == {"page", "429", "RequestException"}

\* the message of "raise Exception(...)" after the loop
FailedToFetch == "Failed to fetch {url} after {max_retries} attempts"

\* fetch_page with "return None" after the loop in place of the raise
CallFetchPageFallsThrough ==
    /\ call.op = "none"
    /\ \E max_retries \in (0 - 1)..MaxRetries, session \in Sessions :
        /\ call' = [op |-> "fetch", max_retries |-> max_retries, session |-> session]
        /\ ret' = [op |-> "fetch", attempt |-> 1, sleeps |-> <<>>,
                   requests |-> 0, transient |-> TRUE, client |-> TRUE,
                   outcome |-> IF max_retries >= 1 THEN "running" ELSE "returned",
                   error |-> "none"]
    /\ UNCHANGED <<invocation, prices>>

\* api_client.fetch_page(url) enters "for attempt in range(1, max_retries + 1)";
\* MAX_RETRIES is any integer, validate does not look at it
CallFetchPage ==
    /\ call.op = "none"
    /\ \E max_retries \in (0 - 1)..MaxRetries, session \in Sessions :
        /\ call' = [op |-> "fetch", max_retries |-> max_retries, session |-> session]
        /\ ret' = [op |-> "fetch", attempt |-> 1, sleeps |-> <<>>,
                   requests |-> 0, transient |-> TRUE, client |-> TRUE,
                   outcome |-> IF max_retries >= 1 THEN "running" ELSE "Exception",
                   error |-> IF max_retries >= 1 THEN "none" ELSE FailedToFetch]
    /\ UNCHANGED <<invocation, prices>>

\* fetch_page that raises a 4xx status at once, without another attempt
FetchAttemptClientErrorFatal ==
    /\ call.op = "fetch"
    /\ ret.outcome = "running"
    /\ \E got \in SessionGet(call.session, call.max_retries) :
        LET attempt == ret.attempt
            response == got.response
            slept(cause, seconds) ==
                Append(ret.sleeps, [attempt |-> attempt, cause |-> cause, seconds |-> seconds])
            final == attempt = call.max_retries \/ got.raw = "404"
            made == [ret EXCEPT !.requests = @ + got.requests,
                                !.transient = @ /\ got.raw \in {"503", "ConnectionError"},
                                !.client = @ /\ got.raw = "404"]
        IN /\ response \in Responses
           /\ ret' =
                IF response = "page"
                THEN [made EXCEPT !.outcome = "returned"]
                ELSE IF response = "429"
                THEN [made EXCEPT !.sleeps = slept("429", WaitRateLimited(attempt)),
                                  !.attempt = attempt + 1,
                                  !.outcome = IF final THEN "Exception" ELSE "running",
                                  !.error = IF final THEN FailedToFetch ELSE "none"]
                ELSE IF final
                THEN [made EXCEPT !.outcome = "RequestException", !.error = got.error]
                ELSE [made EXCEPT !.sleeps = slept("RequestException", WaitTransient(attempt)),
                                  !.attempt = attempt + 1]
    /\ UNCHANGED <<invocation, prices, call>>

\* one iteration of the loop of fetch_page; the loop left without a return
\* ends in "raise Exception(...)". ret.requests counts the HTTP requests made,
\* ret.transient tells that every attempt so far failed with a network
\* error or a 5xx status, and ret.client that every attempt so far got a 4xx
\* status.
FetchAttempt ==
    /\ call.op = "fetch"
    /\ ret.outcome = "running"
    /\ \E got \in SessionGet(call.session, call.max_retries) :
        LET attempt == ret.attempt
            response == got.response
            slept(cause, seconds) ==
                Append(ret.sleeps, [attempt |-> attempt, cause |-> cause, seconds |-> seconds])
            final == attempt = call.max_retries
            made == [ret EXCEPT !.requests = @ + got.requests,
                                !.transient = @ /\ got.raw \in {"503", "ConnectionError"},
                                !.client = @ /\ got.raw = "404"]
        IN /\ response \in Responses
           /\ ret' =
                IF response = "page"
                THEN [made EXCEPT !.outcome = "returned"]
                ELSE IF response = "429"
                THEN [made EXCEPT !.sleeps = slept("429", WaitRateLimited(attempt)),
                                  !.attempt = attempt + 1,
                                  !.outcome = IF final THEN "Exception" ELSE "running",
                                  !.error = IF final THEN FailedToFetch ELSE "none"]
                ELSE IF final
                THEN [made EXCEPT !.outcome = "RequestException", !.error = got.error]
                ELSE [made EXCEPT !.sleeps = slept("RequestException", WaitTransient(attempt)),
                                  !.attempt = attempt + 1]
    /\ UNCHANGED <<invocation, prices, call>>

FetchNext ==
    \/ CallFetchPage
    \/ FetchAttempt

FetchSpec == Init /\ [][FetchNext]_vars

\* ------------------------------ invocations over the same API pages
\* the chain of pages the API serves for every currency, every time
RerunPages ==
    <<<<Item(1, "2024-01-01", 1), Item(2, "2024-01-01", 1), Item(1, "2024-01-01", 2)>>,
      <<Item(2, "2024-01-01", 2)>>>>

\* the settings of the invocations: they pass validate and name a currency
RerunEnvironments ==
    {e \in Environments : e.sql_set /\ Validate(e) = "ok" /\ e.currencies # <<>>}

\* how an invocation ends: "ok", or in currency idx at page `page` by an
\* exception of fetch_page ("fetch"), by an exception of chunk failAt of
\* upsert_prices_batch ("upsert"), or by the death of the process while
\* chunk failAt is under way ("die")
OkEnd == [kind |-> "ok", idx |-> 0, page |-> 0, failAt |-> 0]
Ends(currencies, pages, batch_size) ==
    {OkEnd}
    \cup {[kind |-> "fetch", idx |-> i, page |-> p, failAt |-> 0] :
            i \in DOMAIN currencies, p \in DOMAIN pages}
    \cup {[kind |-> x[1], idx |-> x[2], page |-> x[3], failAt |-> x[4]] :
            x \in {y \in {"upsert", "die"} \X (DOMAIN currencies) \X (DOMAIN pages)
                            \X (1..MaxItems) :
                      y[4] <= NumChunks(pages[y[3]], batch_size)}}

\* process_currency, the page loop: the table after the pages 1..n
RECURSIVE PagesStored(_, _, _, _, _, _)
PagesStored(table, currency, pages, batch_size, n, t) ==
    IF n = 0 THEN table
    ELSE TableUpTo(PagesStored(table, currency, pages, batch_size, n - 1, t),
                   currency, pages[n], batch_size,
                   Committed(pages[n], batch_size, 0), t)

\* process_currency, the page loop: total_items after the pages 1..n
RECURSIVE PagesCounted(_, _, _, _)
PagesCounted(currency, pages, batch_size, n) ==
    IF n = 0 THEN 0
    ELSE AddProcessed(PagesCounted(currency, pages, batch_size, n - 1),
                      UpsertPricesBatch(currency, pages[n], batch_size, 0).count)

\* process_currency for one currency, with the except block of
\* process_all_currencies when it raises
ProcessCurrency(rs, table, sid, currency, pages, batch_size, end, t) ==
    LET started == CreateSnapshotRun(rs, sid, currency, t)
        whole == IF end.kind = "ok" THEN Len(pages) ELSE end.page - 1
        stored == PagesStored(table, currency, pages, batch_size, whole, t)
        total_items_ == PagesCounted(currency, pages, batch_size, whole)
    IN IF end.kind = "ok"
       THEN [runs |-> UpdateSnapshotStatus(started, sid, currency,
                                           RUN_STATUS_SUCCEEDED, total_items_, t),
             prices |-> stored]
       ELSE [runs |-> IF end.kind = "die" THEN started
                      ELSE UpdateSnapshotStatus(started, sid, currency,
                                                RUN_STATUS_FAILED, FailedRunItemCount, t),
             prices |-> IF end.kind = "fetch" THEN stored
                        ELSE TableUpTo(stored, currency, pages[end.page], batch_size,
                                       Committed(pages[end.page], batch_size, end.failAt),
                                       t)]

\* process_all_currencies: "for currency in config.currencies" from
\* position i on; the loop is left where the invocation ends
RECURSIVE ProcessCurrenciesFrom(_, _, _, _, _, _, _, _, _)
ProcessCurrenciesFrom(rs, table, sid, currencies, i, pages, batch_size, end, t) ==
    IF i > Len(currencies) THEN [runs |-> rs, prices |-> table]
    ELSE IF end.kind # "ok" /\ end.idx = i
    THEN ProcessCurrency(rs, table, sid, currencies[i], pages, batch_size, end, t)
    ELSE LET done == ProcessCurrency(rs, table, sid, currencies[i], pages,
                                     batch_size, OkEnd, t)
         IN ProcessCurrenciesFrom(done.runs, done.prices, sid, currencies, i + 1,
                                  pages, batch_size, end, t)

\* PriceSnapshot.main at time t with settings e: cleanup_hung_snapshots,
\* process_all_currencies, and mark_snapshot_failed(snapshot_id) in the
\* except block
Invocation(rs, table, e, pages, end, t) ==
    LET sid == SnapshotIdAt(t)
        left == ProcessCurrenciesFrom(CleanupHungUpdate(rs, t), table, sid,
                                      e.currencies, 1, pages, e.batch_size, end, t)
    IN [runs |-> IF end.kind \in {"fetch", "upsert"}
                 THEN MarkSnapshotFailed(left.runs, sid, "", t)
                 ELSE left.runs,
        prices |-> left.prices,
        outcome |-> IF end.kind = "ok" THEN "ok"
                    ELSE IF end.kind = "die" THEN "died" ELSE "raised"]

\* the timer fires again: one invocation after the other, each a unit of
\* the clock after the one before, with the same settings and the same pages
CallInvocation ==
    /\ call.op \in {"none", "invocation"}
    /\ call.op = "invocation" => call.n < MaxInvocations
    /\ now < MaxTime
    /\ \E e \in (IF call.op = "none" THEN RerunEnvironments ELSE {call.env}) :
       \E end \in Ends(e.currencies, RerunPages, e.batch_size) :
        LET r == Invocation(runs, prices, e, RerunPages, end, now)
        IN /\ runs' = r.runs
           /\ prices' = r.prices
           /\ call' = [op |-> "invocation",
                       n |-> IF call.op = "none" THEN 1 ELSE call.n + 1,
                       env |-> e, end |-> end, t |-> now, sid |-> SnapshotIdAt(now),
                       runs |-> runs, prices |-> prices,
                       before |-> IF call.op = "none"
                                  THEN [outcome |-> "none", sid |-> NULL]
                                  ELSE [outcome |-> ret.outcome, sid |-> call.sid]]
           /\ ret' = [op |-> "invocation", outcome |-> r.outcome]
    /\ now' = now + 1
    /\ UNCHANGED <<died, pc, locals, ghost>>

RerunSpec == Init /\ [][CallInvocation]_vars

\* ------------------------ an invocation and the first page it asks for
\* the settings of RerunEnvironments with their MAX_RETRIES
RetryEnvironments ==
    {[batch_size |-> e.batch_size, currencies |-> e.currencies,
      sql_set |-> e.sql_set, max_retries |-> m] :
        e \in RerunEnvironments, m \in (0 - 1)..MaxRetriesMain}

\* the run table the invocation finds: every pair with the same stored row
RetryInit == \E r \in StoredRuns : InitWith(1, [k \in RunKeys |-> r], {})

\* how the invocation ends, given how the fetch_page call for the first
\* page of the first currency ended: an exception of that call ends it there
FirstFetch == [kind |-> "fetch", idx |-> 1, page |-> 1, failAt |-> 0]
EndsAfterFirstFetch(fetched, currencies, pages, batch_size) ==
    IF fetched = "returned"
    THEN Ends(currencies, pages, batch_size) \ {FirstFetch}
    ELSE {FirstFetch}

\* PriceSnapshot.main whose first fetch_page call is the call that has just
\* ended: the configuration has the max_retries of that call and passes
\* validate
MainAfterFetch ==
    /\ call.op = "fetch"
    /\ ret.outcome # "running"
    /\ call.session = "mounted"
    /\ call.max_retries <= MaxRetriesMain
    /\ \E e \in {x \in RetryEnvironments : x.max_retries = call.max_retries} :
       \E end \in EndsAfterFirstFetch(ret.outcome, e.currencies, RerunPages, e.batch_size) :
        LET r == Invocation(runs, prices, e, RerunPages, end, now)
        IN /\ Validate(e) = "ok"
           /\ runs' = r.runs
           /\ prices' = r.prices
           /\ call' = [op |-> "main", env |-> e, end |-> end, t |-> now,
                       sid |-> SnapshotIdAt(now), runs |-> runs, prices |-> prices,
                       first |-> [outcome |-> ret.outcome, error |-> ret.error,
                                  requests |-> ret.requests]]
           /\ ret' = [op |-> "main", outcome |-> r.outcome]
    /\ UNCHANGED <<now, died, pc, locals, ghost>>

RetryNext ==
    \/ CallFetchPage
    \/ FetchAttempt
    \/ MainAfterFetch

RetrySpec == RetryInit /\ [][RetryNext]_vars

\* ------------------------------ PricingConfig.from_environment and main
\* the text of an environment variable is a sequence of pieces: a currency
\* code, a comma, a blank
EnvTokens == {"USD", "EUR", ",", " "}
Unset == <<"unset">>
DEFAULT_CURRENCIES == <<"USD", ",", "EUR">>

\* the values of CURRENCIES: not set, or any text of up to MaxChars pieces
EnvValues == {Unset} \cup UNION {[1..n -> EnvTokens] : n \in 0..MaxChars}

\* the values of BATCH_SIZE as integers; DEFAULT_BATCH_SIZE when it is not set
EnvBatchSizes == {0, 2, DEFAULT_BATCH_SIZE}

\* os.environ.get("CURRENCIES", DEFAULT_CURRENCIES)
Getenv(value) == IF value = Unset THEN DEFAULT_CURRENCIES ELSE value

\* str.split(","): the fields between the commas; a text without a comma,
\* the empty text too, is one field
RECURSIVE Split(_)
Split(text) ==
    IF \A i \in DOMAIN text : text[i] # ","
    THEN <<text>>
    ELSE LET i == CHOOSE c \in DOMAIN text :
                    text[c] = "," /\ \A b \in 1..(c - 1) : text[b] # ","
         IN <<SubSeq(text, 1, i - 1)>> \o Split(SubSeq(text, i + 1, Len(text)))

\* str.strip(): the text without its leading and trailing blanks
RECURSIVE Strip(_)
Strip(text) ==
    IF text = <<>> THEN text
    ELSE IF Head(text) = " " THEN Strip(Tail(text))
    ELSE IF text[Len(text)] = " " THEN Strip(SubSeq(text, 1, Len(text) - 1))
    ELSE text

\* the text as one string
RECURSIVE Join(_)
Join(text) == IF text = <<>> THEN "" ELSE Head(text) \o Join(Tail(text))

\* from_environment with "[c.strip() for c in ... if c.strip()]"
FromEnvironmentNonBlank(value, batch_size) ==
    LET fields == Split(Getenv(value))
        kept == SelectSeq(fields, LAMBDA f : Strip(f) # <<>>)
    IN [batch_size |-> batch_size,
        currencies |-> [i \in DOMAIN kept |-> Join(Strip(kept[i]))],
        sql_set |-> TRUE]

\* PricingConfig.from_environment: currencies and batch_size
FromEnvironment(value, batch_size) ==
    LET fields == Split(Getenv(value))
    IN [batch_size |-> batch_size,
        currencies |-> [i \in DOMAIN fields |-> Join(Strip(fields[i]))],
        sql_set |-> TRUE]

\* the currency codes a value of CURRENCIES can hold
EnvCodes ==
    {Join(Strip(f)) : f \in UNION {[1..n -> EnvTokens \ {","}] : n \in 0..MaxChars}}

\* the run table has no row and the price table is empty
EnvInit == InitWith(1, [k \in SnapshotIds \X EnvCodes |-> NoRow], {})

\* process_currency calls fetch_page for the first page of every currency
\* it is called for: the currencies up to the one the invocation ends in
FetchedCurrencies(currencies, end) ==
    SubSeq(currencies, 1, IF end.kind = "ok" THEN Len(currencies) ELSE end.idx)

\* PriceSnapshot.main with the configuration from_environment builds: a
\* configuration validate rejects ends the invocation; process_all_currencies
\* strips the codes again, which leaves them as they are
MainFromEnvironment ==
    /\ call.op = "none"
    /\ \E value \in EnvValues, batch_size \in EnvBatchSizes :
        LET config == FromEnvironment(value, batch_size)
            asked == [op |-> "main", value |-> value, config |-> config,
                      t |-> now, sid |-> SnapshotIdAt(now)]
        IN IF Validate(config) # "ok"
           THEN /\ call' = asked
                /\ ret' = [op |-> "main", validate |-> Validate(config),
                           outcome |-> "raised", fetched |-> <<>>]
                /\ UNCHANGED <<runs, prices>>
           ELSE \E end \in Ends(config.currencies, RerunPages, config.batch_size) :
                LET r == Invocation(runs, prices, config, RerunPages, end, now)
                IN /\ runs' = r.runs
                   /\ prices' = r.prices
                   /\ call' = asked
                   /\ ret' = [op |-> "main", validate |-> "ok",
                              outcome |-> r.outcome,
                              fetched |-> FetchedCurrencies(config.currencies, end)]
    /\ UNCHANGED <<now, died, pc, locals, ghost>>

EnvSpec == EnvInit /\ [][MainFromEnvironment]_vars

\* -------------------------------------------- what the caller gets back
\* str(e): the message of the exception, which is that of the error that
\* was raised first; the text "Failed to process currency {currency}: ..."
\* of process_all_currencies is only logged
Str(e) == [currency |-> "", cause |-> e.kind]

\* what the caller of the trigger has got when the invocation is over: main
\* returns None, or the exception that leaves main with "raise" (or that the
\* import of the ManualTrigger module raised). The list `results` is a local
\* of process_all_currencies: it is returned to main, which logs it, when no
\* currency failed, and is lost with the FAILED line when one did.
Reported ==
    [success |-> outcome = "ok",
     message |-> IF outcome \in {"raised", "import_error"}
                 THEN Str(raised) ELSE Str(NoExc),
     results |-> <<>>]

\* ------------------------- the run table under any sequence of calls
\* (every call with the snapshot id of the month it is made in)
\* item counts update_snapshot_status is called with
ItemCounts == {0, 3}

\* create_snapshot_run for the snapshot id of the month
OpStartRun ==
    /\ \E cur \in Currencies :
            runs' = CreateSnapshotRun(runs, SnapshotIdAt(now), cur, now)
    /\ UNCHANGED <<now, died, pc, locals, ghost, prices, unit>>

\* update_snapshot_status with RUN_STATUS_SUCCEEDED or RUN_STATUS_FAILED
OpFinishRun ==
    /\ \E cur \in Currencies, n \in ItemCounts,
          status \in {RUN_STATUS_SUCCEEDED, RUN_STATUS_FAILED} :
            runs' = UpdateSnapshotStatus(runs, SnapshotIdAt(now), cur, status, n, now)
    /\ UNCHANGED <<now, died, pc, locals, ghost, prices, unit>>

\* mark_snapshot_failed with a currency or with None
OpMarkFailed ==
    /\ \E cur \in Currencies \cup {""} :
            runs' = MarkSnapshotFailed(runs, SnapshotIdAt(now), cur, now)
    /\ UNCHANGED <<now, died, pc, locals, ghost, prices, unit>>

\* cleanup_hung_snapshots
OpReaper ==
    /\ runs' = CleanupHungUpdate(runs, now)
    /\ UNCHANGED <<now, died, pc, locals, ghost, prices, unit>>

RunOpsNext ==
    \/ OpStartRun
    \/ OpFinishRun
    \/ OpMarkFailed
    \/ OpReaper
    \/ Tick(UnitsPerHour)

RunOpsSpec == Init /\ [][RunOpsNext]_vars

TypeOK ==
    /\ now \in 0..MaxTime
    /\ pc \in {"idle", "diag", "load", "reap", "open", "start", "fetch",
               "finish", "mark", "except", "done"}

\* ============================================================ properties
Done == pc = "done"
Failed == Done /\ outcome = "raised"
Row(cur) == runs[<<snapshot_id, cur>>]
JustFinished == last = "finishRun:ok"
LastLine == results[Len(results)]
ConfigErrors == {"KeyError", "BATCH_SIZE must be between 1 and 95",
                 "BATCH_SIZE would exceed SQL Server 2100 parameter limit",
                 "At least one currency must be configured"}

C2_FailFast ==
    (Failed /\ origExc.kind \in {"fetch", "upsert"}) =>
        /\ raised # NoExc
        /\ origExc.cur = env.currencies[idx]
        /\ touched = {env.currencies[i] : i \in 1..idx}
        /\ calls.startRun = idx
        /\ (raised = origExc =>
                /\ Row(origExc.cur).status = RUN_STATUS_FAILED
                /\ Row(origExc.cur).itemCount = 0
                /\ LastLine = FailedLine(origExc.cur, origExc))

C2_Witness ==
    /\ Failed /\ origExc = Exc("upsert", "USD") /\ raised = origExc
    /\ env.currencies = <<"USD", "EUR">>
    /\ total_items > 0
    /\ touched = {"USD"}
    /\ Row("USD").status = RUN_STATUS_FAILED /\ Row("USD").itemCount = 0
    /\ Row("EUR").status = "ABSENT"

\* C3: every currency the invocation has completed keeps its SUCCEEDED row
\* and item count, through the failure marking of a later currency and the
\* top-level mark_snapshot_failed(snapshot_id).
C3_CompletedKept ==
    \A i \in 1..Len(results) :
        results[i].kind = "items" =>
            /\ Row(results[i].currency).status = RUN_STATUS_SUCCEEDED
            /\ Row(results[i].currency).itemCount = results[i].n

C3_Witness ==
    /\ Failed /\ last = "cleanup:ok"
    /\ Len(results) = 2
    /\ results[1] = ItemsLine("USD", 3)
    /\ results[2].kind = "FAILED" /\ results[2].currency = "EUR"
    /\ Row("USD").status = RUN_STATUS_SUCCEEDED /\ Row("USD").itemCount = 3
    /\ Row("EUR").status = RUN_STATUS_FAILED

\* C4: the exception that leaves the trigger after a processing error is the
\* processing error, also when marking the run FAILED failed.
C4_OriginalErrorSurfaces ==
    (Failed /\ origExc # NoExc) => raised = origExc

\* C5: when an invocation ends with an exception after snapshot_id was
\* computed and the cleanup reached the store, no run of that snapshot_id is
\* RUNNING, also when the per-currency marking could not run.
C5_NoRunningAfterCleanup ==
    (Failed /\ snapshot_id # NULL /\ last = "cleanup:ok") =>
        \A c \in Currencies : Row(c).status # RUN_STATUS_RUNNING

C5_Witness ==
    /\ Failed /\ snapshot_id # NULL /\ last = "cleanup:ok"
    /\ raised = Exc("markError", "EUR")
    /\ Row("EUR").status = RUN_STATUS_FAILED /\ Row("EUR").itemCount = NULL
    /\ Row("USD").status = RUN_STATUS_SUCCEEDED

\* C6: a successful reaper statement sets to FAILED, with finishedUtc, every
\* RUNNING run started more than MAX_EXECUTION_TIME_HOURS hours ago and
\* changes no other run.
Hung(row, t) ==
    /\ row.status = RUN_STATUS_RUNNING
    /\ t - row.startedUtc > MAX_EXECUTION_TIME_HOURS * UnitsPerHour

C6_ReaperThreshold ==
    [][(pc = "reap" /\ last' = "reap:ok") =>
        \A k \in RunKeys :
            IF Hung(runs[k], now)
            THEN runs'[k] = [runs[k] EXCEPT !.status = RUN_STATUS_FAILED,
                                            !.finishedUtc = now]
            ELSE runs'[k] = runs[k]]_vars

\* C7: while triggers keep firing and time advances, a run left RUNNING by a
\* process that died in the middle of a currency eventually is FAILED or
\* SUCCEEDED.
Orphaned(k) == k \in died

C8_ReaperNeverBlocks == [][pc = "reap" => pc' \in {"reap", "open"}]_vars

\* C9: a timer or manual invocation that gets past configuration and whose
\* reaper connection opens calls the reaper exactly once, before the first
\* startRun, and never again.
C9_ReaperOnce ==
    /\ calls.reap <= 1
    /\ calls.startRun > 0 => calls.reap = 1
    /\ (Done /\ env.sql_set /\ Validate(env) = "ok" /\ last # "reap:connfail")
            => calls.reap = 1

\* C10: an invocation that fails on its configuration has opened no store
\* connection, executed no store statement and sent no HTTP request.
C10_ConfigFailsBeforeIO ==
    (Failed /\ raised.kind \in ConfigErrors) => io = {}

\* C11: validate accepts a configuration exactly when 1 <= batch_size <= 95
\* and the currency list is not empty, and every batch size it accepts has
\* batch_size * 22 < 2100.
C11_ValidateAccepts ==
    call.op = "validate" =>
        /\ (ret.raised = "ok") <=>
                /\ 1 <= call.cfg.batch_size /\ call.cfg.batch_size <= 95
                /\ Len(call.cfg.currencies) > 0
        /\ (ret.raised = "ok") => call.cfg.batch_size * 22 < 2100

\* batch size 95 (2090 parameters) has been accepted
C11_Witness ==
    /\ call.op = "validate" /\ ret.raised = "ok"
    /\ call.cfg.batch_size = 95 /\ call.cfg.currencies = <<"USD">>

\* C12: validate on a batch size with batch_size * 22 >= 2100 fails with the
\* error about the SQL Server 2100 parameter limit.
C12_ParameterLimitError ==
    (call.op = "validate" /\ call.cfg.batch_size * PARAMS_PER_ITEM >= SQL_PARAM_LIMIT) =>
        ret.raised = "BATCH_SIZE would exceed SQL Server 2100 parameter limit"

\* C13: under a validated configuration every statement upsert_prices_batch
\* executes has at most batch_size rows, the rows of its deduplicated chunk,
\* binds exactly 22 parameters for each row, as many as it has placeholders,
\* and binds fewer than 2100 parameters.
C13_StatementSize ==
    call.op = "upsert" =>
        \A j \in DOMAIN ret.statements :
            LET st == ret.statements[j]
                chunk == Chunk(call.items, call.batch_size, j)
            IN /\ st.rows <= call.batch_size
               /\ st.rows = Cardinality({<<chunk[i].meterId, chunk[i].effectiveStartDate>> :
                                            i \in DOMAIN chunk})
               /\ st.params = 22 * st.rows
               /\ st.params = st.placeholders
               /\ st.params < 2100

C13_Witness ==
    /\ call.op = "upsert" /\ call.batch_size = 95
    /\ Len(ret.statements) = 2
    /\ ret.statements[1].rows = 95 /\ ret.statements[1].params = 2090
    /\ ret.statements[2].rows = 1

\* the key (meterId, effectiveStartDate, currencyCode) of an item of a batch
\* deduplicated for a currency, and the first position of a key in a batch
KeyOf(item, currency) == <<item.meterId, item.effectiveStartDate, currency>>
FirstAt(batch, currency, key) ==
    CHOOSE i \in DOMAIN batch :
        /\ KeyOf(batch[i], currency) = key
        /\ \A j \in 1..(i - 1) : KeyOf(batch[j], currency) # key

\* C14: the list _deduplicate_batch returns has exactly one entry for each
\* distinct key of the batch, the entry is the first item of the batch with
\* that key, the entries are in the order in which their keys first appear,
\* and the duplicate count is the length of the batch minus the length of
\* the list.
C14_DedupeFirstSeen ==
    call.op = "dedupe" =>
        LET keys(l) == {KeyOf(l[i], call.currency) : i \in DOMAIN l}
            first(i) == FirstAt(call.batch, call.currency, KeyOf(ret.unique[i], call.currency))
        IN /\ keys(ret.unique) = keys(call.batch)
           /\ Len(ret.unique) = Cardinality(keys(call.batch))
           /\ \A i \in DOMAIN ret.unique : ret.unique[i] = call.batch[first(i)]
           /\ \A i, j \in DOMAIN ret.unique : i < j => first(i) < first(j)
           /\ ret.duplicates = Len(call.batch) - Len(ret.unique)

C14_Witness ==
    /\ call.op = "dedupe"
    /\ call.batch = <<Item(2, "2024-01-01", 2), Item(1, "2024-01-01", 1),
                      Item(2, "2024-01-01", 1)>>
    /\ ret.unique = <<Item(2, "2024-01-01", 2), Item(1, "2024-01-01", 1)>>
    /\ ret.duplicates = 1

\* the committed chunks of the call that hold an item with the key of row,
\* and the value an item leaves in a column of the table
ChunksWriting(row) ==
    {j \in 1..ret.commits :
        \E i \in DOMAIN Chunk(call.items, call.batch_size, j) :
            KeyOf(Chunk(call.items, call.batch_size, j)[i], call.currency)
                = <<row.meterId, row.effectiveStartDate, row.currencyCode>>}
StoredValue(item, c) ==
    IF c = "isPrimaryMeterRegion" THEN (IF item[c] THEN 1 ELSE 0) ELSE item[c]

\* C15: when an item whose key a stored row already has is upserted again,
\* the table holds exactly one row with that key, every non-key column of
\* the row has the value of the item upserted last, and lastSeenUtc of the
\* row is later than it was.
C15_UpsertTwice ==
    call.op = "upsert" =>
        \A old \in call.table :
            ChunksWriting(old) # {} =>
                LET j == CHOOSE x \in ChunksWriting(old) : \A y \in ChunksWriting(old) : y <= x
                    chunk == Chunk(call.items, call.batch_size, j)
                    item == chunk[FirstAt(chunk, call.currency,
                                          <<old.meterId, old.effectiveStartDate,
                                            old.currencyCode>>)]
                    rows == {r \in prices : SameKey(r, old)}
                IN /\ Cardinality(rows) = 1
                   /\ \A r \in rows :
                        /\ \A c \in ColumnSet \ KeyColumns : r[c] = StoredValue(item, c)
                        /\ r.lastSeenUtc > old.lastSeenUtc

C15_Witness ==
    /\ call.op = "upsert" /\ call.currency = "USD" /\ ret.commits = 1
    /\ call.items = <<Item(1, "2024-01-01", 2)>>
    /\ call.table = {NotMatchedInsert(
                        [Item(1, "2024-01-01", 1) EXCEPT !.currencyCode = "USD",
                                                         !.isPrimaryMeterRegion = 1], 0)}
    /\ prices = {NotMatchedInsert(
                    [Item(1, "2024-01-01", 2) EXCEPT !.currencyCode = "USD",
                                                     !.isPrimaryMeterRegion = 0], now)}

\* the keys of the items of the chunks lo..hi of the call, and the key of a row
KeysOfChunks(lo, hi) ==
    {KeyOf(Chunk(call.items, call.batch_size, j)[i], call.currency) :
        <<j, i>> \in {x \in (lo..hi) \X (1..call.batch_size) :
                        x[2] <= Len(Chunk(call.items, call.batch_size, x[1]))}}
RowKey(r) == <<r.meterId, r.effectiveStartDate, r.currencyCode>>

\* C16: upsert_prices_batch commits once for each chunk. When chunk j fails,
\* the call raises after one rollback, the statements of the chunks after j
\* are never executed, every key of the chunks before j is in the table with
\* the time of the call, and every other row is as it was before the call.
C16_ChunkCommits ==
    (call.op = "upsert" /\ Len(call.items) > 0) =>
        LET n == NumChunks(call.items, call.batch_size)
            done == IF call.failAt = 0 THEN n ELSE call.failAt - 1
        IN /\ ret.commits = done
           /\ ret.raised = (call.failAt # 0)
           /\ ret.rollbacks = (IF call.failAt # 0 THEN 1 ELSE 0)
           /\ Len(ret.statements) = (IF call.failAt = 0 THEN n ELSE call.failAt)
           /\ \A k \in KeysOfChunks(1, done) :
                \E r \in prices : RowKey(r) = k /\ r.lastSeenUtc = now
           /\ \A r \in prices : RowKey(r) \notin KeysOfChunks(1, done) => r \in call.table
           /\ \A r \in call.table : RowKey(r) \notin KeysOfChunks(1, done) => r \in prices

C16_Witness ==
    /\ call.op = "upsert" /\ call.currency = "USD" /\ call.batch_size = 2
    /\ call.failAt = 2 /\ ret.raised /\ ret.commits = 1
    /\ call.items = <<Item(1, "2024-01-01", 1), Item(1, "2024-01-01", 2),
                      Item(2, "2024-01-01", 1)>>
    /\ call.table = {}
    /\ Cardinality(prices) = 1
    /\ \A r \in prices : r.meterId = 1 /\ r.retailPrice = 1

\* C17: as long as no upsert of the run has raised, the counts
\* upsert_prices_batch has returned add up to the rows of the committed
\* statements; a run just recorded as SUCCEEDED carries the number of rows
\* committed during the run as its itemCount; and the run of a currency for
\* which a fetch or a chunk has failed is not SUCCEEDED.
C17_CountsCommittedRows ==
    /\ (pc \in {"fetch", "finish"} \/ JustFinished) => upsertSum = committedRows
    /\ JustFinished =>
        /\ Row(LastLine.currency).status = RUN_STATUS_SUCCEEDED
        /\ Row(LastLine.currency).itemCount = committedRows
    /\ origExc.kind \in {"fetch", "upsert"} =>
        Row(origExc.cur).status # RUN_STATUS_SUCCEEDED

C17_Witness ==
    /\ Failed /\ origExc = Exc("upsert", "USD")
    /\ env.batch_size = 2 /\ page_index = 2
    /\ upsertSum = 2 /\ committedRows = 3
    /\ Row("USD").status = RUN_STATUS_FAILED /\ Row("USD").itemCount = 0

\* C18: create_snapshot_run(snapshot_id, currency, t) leaves the pair with a
\* row that is RUNNING, started at t, with finishedUtc and itemCount NULL,
\* whether the pair had no row or a row of any status; it commits once and
\* leaves the row of every other pair as it was.
C18_StartRunResets ==
    call.op = "startRun" =>
        /\ runs[<<call.sid, call.cur>>] =
                [status |-> RUN_STATUS_RUNNING, startedUtc |-> call.t,
                 finishedUtc |-> NULL, itemCount |-> NULL]
        /\ \A k \in RunKeys : k # <<call.sid, call.cur>> => runs[k] = call.runs[k]
        /\ ret.commits = 1

C18_Witness ==
    /\ call.op = "startRun" /\ call.sid = 1 /\ call.cur = "USD" /\ call.t = 1
    /\ call.runs[<<1, "USD">>].status = RUN_STATUS_SUCCEEDED
    /\ call.runs[<<1, "USD">>].itemCount = 1
    /\ call.runs[<<1, "EUR">>].status = RUN_STATUS_RUNNING
    /\ call.runs[<<2, "USD">>].status = RUN_STATUS_FAILED
    /\ runs[<<1, "USD">>].status = RUN_STATUS_RUNNING
    /\ runs[<<1, "USD">>].itemCount = NULL

\* C19: mark_snapshot_failed(snapshot_id, currency) changes the RUNNING rows
\* of the snapshot id, those of every currency when no currency is given and
\* the one of the currency otherwise, to FAILED with finishedUtc the time of
\* the call; every other row, SUCCEEDED, FAILED or of another snapshot id,
\* and every itemCount is as it was.
C19_MarkFailedFrame ==
    call.op = "markFailed" =>
        \A k \in RunKeys :
            IF /\ k[1] = call.sid
               /\ (call.cur = "" \/ k[2] = call.cur)
               /\ call.runs[k].status = RUN_STATUS_RUNNING
            THEN runs[k] = [status |-> RUN_STATUS_FAILED,
                            startedUtc |-> call.runs[k].startedUtc,
                            finishedUtc |-> call.t,
                            itemCount |-> call.runs[k].itemCount]
            ELSE runs[k] = call.runs[k]

C19_Witness ==
    /\ call.op = "markFailed" /\ call.sid = 1 /\ call.cur = "USD"
    /\ \A k \in {<<1, "USD">>, <<1, "EUR">>, <<2, "USD">>} :
            call.runs[k].status = RUN_STATUS_RUNNING
    /\ call.runs[<<2, "EUR">>].status = RUN_STATUS_SUCCEEDED
    /\ runs[<<1, "USD">>].status = RUN_STATUS_FAILED
    /\ runs[<<1, "EUR">>].status = RUN_STATUS_RUNNING
    /\ runs[<<2, "USD">>].status = RUN_STATUS_RUNNING

C21_AllAttemptsFail ==
    (/\ call.op = "fetch"
     /\ call.max_retries >= 1
     /\ ret.outcome \notin {"running", "returned"}
     /\ ret.transient)
    => /\ ret.requests = call.max_retries
       /\ Len(ret.sleeps) = call.max_retries - 1
       /\ ret.outcome = "RequestException"
       /\ ret.error \in {"ConnectionError", "RetryError", "HTTPError"}

\* C22: a fetch_page call that has used up its attempts, by network errors,
\* by error statuses or by 429 responses, has raised the error with the
\* message "Failed to fetch {url} after {n} attempts".
C22_TerminalMessage ==
    (call.op = "fetch" /\ ret.outcome \notin {"running", "returned"})
    => ret.error = FailedToFetch

\* the attempts of the fetch so far that ended in a 429 response
RateLimitedAttempts == {i \in DOMAIN ret.sleeps : ret.sleeps[i].cause = "429"}

\* C23: 429 responses do not use up the attempts for transient failures: a
\* fetch_page call that gave up with a RequestException has had max_retries
\* attempts that failed with a RequestException, however many 429 responses
\* (fewer than max_retries) it met.
C23_SeparateCounters ==
    (/\ call.op = "fetch"
     /\ ret.outcome = "RequestException"
     /\ Cardinality(RateLimitedAttempts) < call.max_retries)
    => (Len(ret.sleeps) - Cardinality(RateLimitedAttempts)) + 1 = call.max_retries

\* the keys the rows of a price table have
StoredKeys(table) == {RowKey(r) : r \in table}

\* C24: when an invocation has run to its end without a failure after an
\* earlier invocation for the same snapshot id over the same pages, however
\* that one ended, the store holds one price row for each key of the pages
\* and the same keys, and the same status and itemCount in every run row, as
\* after a single invocation that ran without a failure on the empty store.
C24_RerunSafe ==
    (/\ call.op = "invocation"
     /\ call.n >= 2
     /\ call.before.sid = call.sid
     /\ ret.outcome = "ok")
    => LET first == Invocation(NoRuns, {}, call.env, RerunPages, OkEnd, call.t)
       IN /\ StoredKeys(prices) = StoredKeys(first.prices)
          /\ StoredKeys(prices) =
                {<<m, "2024-01-01", call.env.currencies[i]>> :
                    m \in {1, 2}, i \in DOMAIN call.env.currencies}
          /\ Cardinality(prices) = Cardinality(StoredKeys(prices))
          /\ \A k \in RunKeys :
                /\ runs[k].status = first.runs[k].status
                /\ runs[k].itemCount = first.runs[k].itemCount
          /\ \A i \in DOMAIN call.env.currencies :
                /\ runs[<<call.sid, call.env.currencies[i]>>].status = RUN_STATUS_SUCCEEDED
                /\ runs[<<call.sid, call.env.currencies[i]>>].itemCount
                      = (IF call.env.batch_size = 2 THEN 4 ELSE 3)

\* the first invocation had finished USD and died in the first chunk of EUR
\* (USD SUCCEEDED, EUR RUNNING, no row of EUR stored); the second one ran to
\* its end
C24_Witness ==
    /\ call.op = "invocation" /\ call.n = 2 /\ ret.outcome = "ok"
    /\ call.before = [outcome |-> "died", sid |-> call.sid]
    /\ call.env.currencies = <<"USD", "EUR">> /\ call.env.batch_size = 2
    /\ call.runs[<<1, "USD">>].status = RUN_STATUS_SUCCEEDED
    /\ call.runs[<<1, "EUR">>].status = RUN_STATUS_RUNNING
    /\ Cardinality(StoredKeys(call.prices)) = 2
    /\ Cardinality(StoredKeys(prices)) = 4
    /\ runs[<<1, "EUR">>].status = RUN_STATUS_SUCCEEDED
    /\ runs[<<1, "EUR">>].itemCount = 4

\* C25: when an invocation has failed in a currency, its caller has got a
\* non-success outcome, the result lines of the currencies with the line
\* "{currency}: FAILED - {reason}" of the failing currency, and a message
\* that names the failing currency and the cause.
C25_FailureReport ==
    (Failed /\ origExc # NoExc) =>
        /\ ~Reported.success
        /\ \E i \in DOMAIN Reported.results :
                Reported.results[i] = FailedLine(origExc.cur, origExc)
        /\ Reported.message.currency = origExc.cur
        /\ Reported.message.cause = origExc.kind

\* how an invocation of the timer trigger is over: it returned, raised or
\* died; settings without the SQL variables or refused by validate gave the
\* KeyError or the error of validate; with valid settings it went on to the
\* store; when it returned, every currency has its result line and its run
\* SUCCEEDED
EndsAsTimerDoes ==
    /\ outcome \in {"ok", "raised", "died"}
    /\ ~env.sql_set => (outcome = "raised" /\ raised.kind = "KeyError")
    /\ (env.sql_set /\ Validate(env) # "ok")
            => (outcome = "raised" /\ raised.kind = Validate(env))
    /\ (env.sql_set /\ Validate(env) = "ok") => last # "none"
    /\ outcome = "ok" =>
            /\ Len(results) = Len(env.currencies)
            /\ \A i \in DOMAIN env.currencies :
                    Row(env.currencies[i]).status = RUN_STATUS_SUCCEEDED

\* C26: an invocation of the manual trigger does what an invocation of the
\* timer trigger does with the same settings, store and API answers, and
\* reports to its caller in the same way.
C26_TriggersAgree ==
    (Done /\ trigger = "manual") => EndsAsTimerDoes

\* an iteration of the page loop that fetched a page with no items (Items
\* empty or absent) and raised nothing
EmptyPageStep == PageStep({<<>>}) /\ pc' # "mark"

\* C27: an iteration of the page loop whose page has no items makes no
\* upsert call and no store step, counts nothing and changes no price row,
\* and the NextPageLink of the page is taken over as it is for any page;
\* every iteration that does not raise is followed by another one exactly
\* when the NextPageLink of its page is neither null or absent nor empty,
\* whatever the number of the page; the loop is left for
\* update_snapshot_status only so, and otherwise by an exception (or with
\* the process).
C27_EmptyPagesFollowed ==
    [][/\ EmptyPageStep =>
            /\ prices' = prices
            /\ last' = last
            /\ io' = io \cup {"http"}
            /\ total_items' = total_items
            /\ committedRows' = committedRows
            /\ page_index' = page_index + 1
            /\ next_page_link' \in {next_page_link + 1, NoneLink, EmptyLink}
       /\ (pc = "fetch" /\ pc' = "fetch") =>
            /\ next_page_link' > 0
            /\ page_index' < chain
       /\ (pc = "fetch" /\ pc' = "finish") =>
            /\ next_page_link' \in {NoneLink, EmptyLink}
            /\ page_index' = chain
       /\ (pc = "fetch" /\ pc' \notin {"fetch", "finish"}) =>
            \/ pc' = "mark" /\ exc' # NoExc
            \/ pc' = "done" /\ outcome' = "died"
      ]_vars

\* two pages without items have been fetched, the second one with an empty
\* NextPageLink: the loop is over, nothing was counted or stored and the
\* last store step is still create_snapshot_run
C27_Witness ==
    /\ pc = "finish" /\ chain = 2 /\ page_index = 2
    /\ next_page_link = EmptyLink
    /\ total_items = 0 /\ committedRows = 0 /\ prices = {}
    /\ last = "startRun:ok"
    /\ "http" \in io

\* C28: a step that changes the status of a run that is SUCCEEDED or FAILED
\* is a create_snapshot_run, which sets it to RUNNING; update_snapshot_status,
\* mark_snapshot_failed and cleanup_hung_snapshots leave such a run alone.
C28_TerminalKept ==
    [][\A k \in RunKeys :
            (/\ runs[k].status \in {RUN_STATUS_SUCCEEDED, RUN_STATUS_FAILED}
             /\ runs'[k].status # runs[k].status)
            => /\ runs'[k].status = RUN_STATUS_RUNNING
               /\ last' = "startRun:ok"
      ]_vars

\* the steps of the failure cleanup: the except block of
\* process_all_currencies and the except block of main
CleanupStep == pc \in {"mark", "except"}

C30_RunRowInvariant ==
    \A k \in RunKeys :
        runs[k].status # "ABSENT" =>
            /\ runs[k].status \in {RUN_STATUS_RUNNING, RUN_STATUS_SUCCEEDED, RUN_STATUS_FAILED}
            /\ (runs[k].status = RUN_STATUS_RUNNING) <=> (runs[k].finishedUtc = NULL)
            /\ runs[k].status = RUN_STATUS_RUNNING => runs[k].itemCount = NULL
            /\ runs[k].status = RUN_STATUS_SUCCEEDED => runs[k].itemCount # NULL

\* of the runs of one snapshot id, one was finished with 3 items and started
\* again, and the other was set to FAILED hours after its start, by the
\* reaper or by mark_snapshot_failed, and has no itemCount
C30_Witness ==
    \E sid \in SnapshotIds :
        /\ runs[<<sid, "USD">>].status = RUN_STATUS_RUNNING
        /\ runs[<<sid, "USD">>].startedUtc = now
        /\ runs[<<sid, "EUR">>].status = RUN_STATUS_FAILED
        /\ runs[<<sid, "EUR">>].itemCount = NULL
        /\ DateDiffHour(runs[<<sid, "EUR">>].startedUtc, runs[<<sid, "EUR">>].finishedUtc)
                > MAX_EXECUTION_TIME_HOURS

\* the keys of the items of chunk j of the call
KeysOfChunk(j) == KeysOfChunks(j, j)

\* the number of distinct keys of chunk j, added up over the chunks 1..j
RECURSIVE DistinctKeysUpTo(_)
DistinctKeysUpTo(j) ==
    IF j = 0 THEN 0 ELSE DistinctKeysUpTo(j - 1) + Cardinality(KeysOfChunk(j))

\* C31: upsert_prices_batch deduplicates every chunk of batch_size items on
\* its own: the statement of chunk j has one row for each distinct key of
\* chunk j, also for a key an earlier chunk had, and the count of a call that
\* returns is the sum of the numbers of distinct keys of its chunks, which is
\* never less than the number of distinct keys of the page.
C31_DedupePerChunk ==
    (call.op = "upsert" /\ Len(call.items) > 0) =>
        /\ \A j \in DOMAIN ret.statements :
                ret.statements[j].rows = Cardinality(KeysOfChunk(j))
        /\ ret.count = DistinctKeysUpTo(ret.commits)
        /\ ~ret.raised =>
                /\ ret.commits = NumChunks(call.items, call.batch_size)
                /\ ret.count >= Cardinality(KeysOfChunks(1, ret.commits))

\* a page of three items with batch size 2 whose first and third item have
\* the same key: two statements, of two rows and of one row, count 3 for two
\* distinct keys, and the row of the key holds the third item
C31_Witness ==
    /\ call.op = "upsert" /\ call.currency = "USD" /\ call.batch_size = 2
    /\ call.failAt = 0 /\ ~ret.raised
    /\ call.items = <<Item(1, "2024-01-01", 1), Item(2, "2024-01-01", 1),
                      Item(1, "2024-01-01", 2)>>
    /\ call.table = {}
    /\ Len(ret.statements) = 2
    /\ ret.statements[1].rows = 2 /\ ret.statements[2].rows = 1
    /\ ret.count = 3
    /\ Cardinality(KeysOfChunks(1, 2)) = 2
    /\ Cardinality(prices) = 2
    /\ \E r \in prices : r.meterId = 1 /\ r.retailPrice = 2

\* the meter and date pairs of the items of chunk j of the call
MeterDatesOfChunk(j) ==
    {<<item.meterId, item.effectiveStartDate>> :
        item \in {Chunk(call.items, call.batch_size, j)[i] :
                    i \in DOMAIN Chunk(call.items, call.batch_size, j)}}

\* C32: every row upsert_prices_batch(..., currency, ...) has inserted or
\* updated has currencyCode = currency, whatever the currencyCode fields of
\* the items say; the rows of other currencies are the rows the table had;
\* and the items of a chunk are deduplicated on meterId and
\* effectiveStartDate alone, the currency of the key being the argument.
C32_CurrencyFromArgument ==
    call.op = "upsert" =>
        /\ \A r \in prices \ call.table : r.currencyCode = call.currency
        /\ \A r \in call.table \ prices : r.currencyCode = call.currency
        /\ \A j \in DOMAIN ret.statements :
                ret.statements[j].rows = Cardinality(MeterDatesOfChunk(j))

\* upsert for USD of the mixed page (one meter and date, currencyCode USD
\* and EUR) on a table that holds the EUR row of the meter: one statement of
\* one row, the USD row of the meter is inserted with the first item and the
\* EUR row is as it was
C32_Witness ==
    /\ call.op = "upsert" /\ call.currency = "USD" /\ call.items = MixedPage
    /\ call.batch_size = 2 /\ call.failAt = 0
    /\ \E old \in call.table :
            /\ old.currencyCode = "EUR" /\ old.meterId = 1 /\ old.retailPrice = 2
            /\ old \in prices
    /\ Cardinality(call.table) = 1 /\ Cardinality(prices) = 2
    /\ ret.count = 1 /\ ret.statements[1].rows = 1
    /\ \E r \in prices :
            /\ r.currencyCode = "USD" /\ r.meterId = 1
            /\ r.retailPrice = 1 /\ r.lastSeenUtc = now

\* the invocation whose configuration has max_retries <= 0 has ended
NoAttempts == call.op = "main" /\ call.env.max_retries <= 0

\* C33 as stated: validate accepts max_retries <= 0; fetch_page then sends
\* no request and raises "Failed to fetch ... after ... attempts"; and the
\* run of every configured currency ends FAILED.
C33_EveryRunFailed ==
    NoAttempts =>
        /\ Validate(call.env) = "ok"
        /\ call.first.requests = 0
        /\ call.first.outcome = "Exception" /\ call.first.error = FailedToFetch
        /\ ret.outcome = "raised"
        /\ \A i \in DOMAIN call.env.currencies :
                runs[<<call.sid, call.env.currencies[i]>>].status = RUN_STATUS_FAILED

\* C33: validate accepts max_retries <= 0; fetch_page then sends no request
\* and raises "Failed to fetch ... after ... attempts"; the invocation
\* raises and writes no price; the run of the first currency is started and
\* ends FAILED with 0 items; no run is started for a later currency, whose
\* row is the row the table had, marked FAILED if it was RUNNING.
C33_FirstRunFailed ==
    NoAttempts =>
        /\ Validate(call.env) = "ok"
        /\ call.first.requests = 0
        /\ call.first.outcome = "Exception" /\ call.first.error = FailedToFetch
        /\ ret.outcome = "raised"
        /\ prices = call.prices
        /\ runs[<<call.sid, call.env.currencies[1]>>] =
                [status |-> RUN_STATUS_FAILED, startedUtc |-> call.t,
                 finishedUtc |-> call.t, itemCount |-> 0]
        /\ \A k \in RunKeys :
                k # <<call.sid, call.env.currencies[1]>> =>
                    IF k[1] = call.sid /\ call.runs[k].status = RUN_STATUS_RUNNING
                    THEN runs[k] = [call.runs[k] EXCEPT !.status = RUN_STATUS_FAILED,
                                                        !.finishedUtc = call.t]
                    ELSE runs[k] = call.runs[k]

\* MAX_RETRIES=0 and CURRENCIES=USD,EUR on a table whose runs SUCCEEDED: no
\* request, the run of USD is FAILED with 0 items and the row of EUR is the
\* SUCCEEDED row of before
C33_Witness ==
    /\ NoAttempts /\ call.env.max_retries = 0
    /\ call.env.currencies = <<"USD", "EUR">>
    /\ call.first.requests = 0 /\ ret.outcome = "raised"
    /\ call.runs[<<call.sid, "EUR">>].status = RUN_STATUS_SUCCEEDED
    /\ runs[<<call.sid, "USD">>].status = RUN_STATUS_FAILED
    /\ runs[<<call.sid, "USD">>].itemCount = 0
    /\ runs[<<call.sid, "EUR">>].status = RUN_STATUS_SUCCEEDED

\* every attempt of the call so far got a 4xx status, or every attempt so
\* far failed with a network error or a 5xx status
OnlyClientErrors == call.op = "fetch" /\ ret.requests > 0 /\ ret.client
OnlyTransientErrors == call.op = "fetch" /\ ret.requests > 0 /\ ret.transient

\* what fetch_page does with a RequestException: attempt i is followed by a
\* sleep of min(2 ** i, 60) seconds and another attempt, and the exception
\* is raised by attempt max_retries and by no attempt before it
RetriedUntilLast ==
    /\ ret.outcome \in {"running", "RequestException"}
    /\ \A i \in DOMAIN ret.sleeps :
            ret.sleeps[i] = [attempt |-> i, cause |-> "RequestException",
                             seconds |-> WaitTransient(i)]
    /\ ret.outcome = "running" =>
            /\ ret.attempt <= call.max_retries
            /\ Len(ret.sleeps) = ret.attempt - 1
    /\ ret.outcome = "RequestException" =>
            /\ ret.attempt = call.max_retries
            /\ Len(ret.sleeps) = call.max_retries - 1
            /\ ret.error # "none"

\* C34: a 4xx status is handled by fetch_page as a network failure or a 5xx
\* status is: every attempt but the last sleeps with backoff and tries
\* again, and the error is raised on attempt max_retries only.
C34_ClientErrorsRetried ==
    (OnlyClientErrors \/ OnlyTransientErrors) => RetriedUntilLast

\* fetch_page with max_retries = 3 on the session of _create_session, every
\* request answered 404: three attempts of one request, sleeps of 2 and 4
\* seconds, then the HTTPError
C34_Witness ==
    /\ OnlyClientErrors /\ call.max_retries = 3 /\ call.session = "mounted"
    /\ ret.outcome = "RequestException" /\ ret.error = "HTTPError"
    /\ ret.requests = 3
    /\ Len(ret.sleeps) = 2
    /\ ret.sleeps[1].seconds = 2 /\ ret.sleeps[2].seconds = 4

\* CURRENCIES is set and its text is empty or made of blanks
BlankValue ==
    /\ call.op = "main" /\ call.value # Unset
    /\ \A i \in DOMAIN call.value : call.value[i] = " "

\* C35: the configuration from_environment builds has at least one
\* currency, so validate never raises "At least one currency must be
\* configured" for it; for an empty or blank CURRENCIES the list is the one
\* code "", and with a batch size validate accepts, the invocation starts a
\* run for "" and calls fetch_page for it.
C35_BlankCurrencyProcessed ==
    call.op = "main" =>
        /\ Len(call.config.currencies) >= 1
        /\ ret.validate # "At least one currency must be configured"
        /\ BlankValue =>
                /\ call.config.currencies = <<"">>
                /\ ret.validate = "ok" =>
                        /\ ret.fetched = <<"">>
                        /\ runs[<<call.sid, "">>].status # "ABSENT"
                        /\ runs[<<call.sid, "">>].startedUtc = call.t

\* CURRENCIES=" " and BATCH_SIZE not set, every page fetched and stored: the
\* run (snapshot, "") SUCCEEDED with 3 items (one of the 4 is a duplicate in
\* its chunk) and the price table holds the two rows of currencyCode ""
C35_Witness ==
    /\ BlankValue /\ call.value = <<" ">>
    /\ call.config.batch_size = DEFAULT_BATCH_SIZE
    /\ ret.validate = "ok" /\ ret.outcome = "ok" /\ ret.fetched = <<"">>
    /\ runs[<<call.sid, "">>].status = RUN_STATUS_SUCCEEDED
    /\ runs[<<call.sid, "">>].itemCount = 3
    /\ Cardinality(prices) = 2
    /\ \A r \in prices : r.currencyCode = ""

====
